---- MODULE Spec2Model ----
(***************************************************************************)
(* Engagement and fan-out engine of the community Q&A server               *)
(* (server/models/application.ts): question votes, poll voting and the     *)
(* expiry sweep, notification fan-out with blocked types, recipient        *)
(* resolution, challenge progress and rewards.                             *)
(*                                                                         *)
(* The document store is modelled collection by collection.  Every store   *)
(* round trip (findOne, findOneAndUpdate, create, find) is one atomic      *)
(* step; an async function is a small process whose program counter sits   *)
(* between its awaits, so two calls interleave exactly at their awaits.    *)
(***************************************************************************)
EXTENDS Integers, Sequences, FiniteSets, TLC

VARIABLES
  now,            \* the wall clock read by `new Date()`
  strictQuery,    \* mongoose build option: are unknown filter paths dropped
  questions,      \* Question collection: qid -> document
  users,          \* User collection: username -> document
  notifications,  \* Notification collection: sequence, _id = index
  polls,          \* Poll collection: sequence, _id = index
  pollOptions,    \* PollOption collection: sequence, _id = index
  communities,    \* Community collection: communityId -> document
  qv,             \* the last addVoteToQuestion call and its result
  pv,             \* addVoteToPollOption calls in flight
  sw,             \* closeExpiredPolls calls in flight
  sp,             \* the saveAndAddPollToCommunity call in flight
  nf,             \* notifyUsers calls in flight
  bt,             \* the updateBlockedTypes call in flight
  sb,             \* the addSubscriberToQuestion call in flight
  calls,          \* how many calls of each bounded kind have been started
  answers,        \* Answer collection: aid -> document
  rs,             \* the last usersToNotify call and its result
  challenges,     \* Challenge collection: challenge id -> document
  userChallenges, \* UserChallenge collection: sequence, _id = index
  unlockedTitles, \* the unlockedTitles path of the User documents
  fc,             \* fetchAndIncrementChallengesByUserAndType calls in flight
  mr,             \* the updateUserNotifsAsRead call in flight
  tags,           \* Tag collection: sequence, _id = index
  tg,             \* addTag and processTags calls in flight
  sc,             \* addSubscriberToQuestion calls that may overlap
  toggled,        \* username -> how many of its subscribe calls have returned
  qlist,          \* the Question array handed to a sort function
  rk              \* the last ranking call and its result

vars == <<now, strictQuery, questions, users, notifications, polls, pollOptions,
          communities, qv, pv, sw, sp, nf, bt, sb, calls, answers, rs,
          challenges, userChallenges, unlockedTitles, fc,
          mr, tags, tg, sc, toggled, qlist, rk>>

(***************************************************************************)
(* Bounds of the model                                                     *)
(***************************************************************************)
MaxTime == 1
MaxPolls == 1
MaxNotifs == 3
MaxVoteCalls == 2
MaxSubscribeCalls == 1
MaxBlockCalls == 1
MaxNotifyCalls == 1
MaxChallengeCalls == 2
MaxMarkCalls == 2
MaxTagCalls == 2
MaxToggleCalls == 3
MaxRankLen == 3

Usernames == {"alice", "bob", "carol"}
QIds == {"q1"}
QIdArgs == QIds \cup {"q0"}
CommunityIds == {"c1"}
CommunityIdArgs == CommunityIds \cup {"c0"}
VoteCallers == {"v1", "v2"}
Sweepers == {"s1"}
NotifyCallers == {"n1"}
ChallengeCallers == {"f1", "f2"}
TagCallers == {"t1", "t2"}
SubscribeCallers == {"b1", "b2"}
VoteTypes == {"upvote", "downvote"}
NotificationTypes == {"Answer", "Comment"}
\* JavaScript undefined; a boolean field that may be absent holds
\* "true", "false" or Undefined
Undefined == "undefined"
AnswerIds == {"a1"}
Idle == [pc |-> "idle"]
NoCalls == [vote |-> 0, subscribe |-> 0, block |-> 0, notify |-> 0, challenge |-> 0,
            mark |-> 0, tag |-> 0, toggle |-> 0]

(***************************************************************************)
(* Array helpers (JavaScript / MongoDB array semantics)                    *)
(***************************************************************************)
includes(arr, x) == \E i \in DOMAIN arr : arr[i] = x

Range(arr) == {arr[i] : i \in DOMAIN arr}

\* $filter ... $ne, and $pull: every occurrence of x is removed
Pull(arr, x) == SelectSeq(arr, LAMBDA e : e # x)

\* $push: appended whether present or not
AddToSet_push(arr, x) == Append(arr, x)

\* $addToSet: appended only when absent
AddToSet(arr, x) == IF includes(arr, x) THEN arr ELSE Append(arr, x)

\* $push without $position: at the end
Unshift_atEnd(arr, x) == Append(arr, x)

\* $push with $position 0
Unshift(arr, x) == <<x>> \o arr

(***************************************************************************)
(* addVoteToQuestion: one aggregation-pipeline findOneAndUpdate            *)
(***************************************************************************)
upvoteUpdate_keepsDown(q, username) ==
  [q EXCEPT
     !.upVotes = IF includes(q.upVotes, username)
                   THEN Pull(q.upVotes, username)
                   ELSE Append(q.upVotes, username)]

\* an upvote that never cancels: the user is added when absent and kept
\* when present
upvoteUpdate_noCancel(q, username) ==
  [q EXCEPT
     !.upVotes = AddToSet(q.upVotes, username),
     !.downVotes = Pull(q.downVotes, username)]

upvoteUpdate(q, username) ==
  [q EXCEPT
     !.upVotes = IF includes(q.upVotes, username)
                   THEN Pull(q.upVotes, username)
                   ELSE Append(q.upVotes, username),
     !.downVotes = IF includes(q.upVotes, username)
                     THEN q.downVotes
                     ELSE Pull(q.downVotes, username)]

downvoteUpdate_keepsUp(q, username) ==
  [q EXCEPT
     !.downVotes = IF includes(q.downVotes, username)
                     THEN Pull(q.downVotes, username)
                     ELSE Append(q.downVotes, username)]

downvoteUpdate(q, username) ==
  [q EXCEPT
     !.downVotes = IF includes(q.downVotes, username)
                     THEN Pull(q.downVotes, username)
                     ELSE Append(q.downVotes, username),
     !.upVotes = IF includes(q.downVotes, username)
                   THEN q.upVotes
                   ELSE Pull(q.upVotes, username)]

voteMsg(result, username, type) ==
  IF type = "upvote"
    THEN IF includes(result.upVotes, username)
           THEN "Question upvoted successfully"
           ELSE "Upvote cancelled successfully"
    ELSE IF includes(result.downVotes, username)
           THEN "Question downvoted successfully"
           ELSE "Downvote cancelled successfully"

addVoteToQuestion(qid, username, type) ==
  IF qid \notin DOMAIN questions
    THEN /\ qv' = [pc |-> "done", qid |-> qid, username |-> username, type |-> type,
                   error |-> "Question not found!", msg |-> Undefined,
                   upVotes |-> <<>>, downVotes |-> <<>>,
                   preUp |-> <<>>, preDown |-> <<>>]
         /\ UNCHANGED questions
    ELSE LET result == IF type = "upvote"
                         THEN upvoteUpdate(questions[qid], username)
                         ELSE downvoteUpdate(questions[qid], username)
         IN /\ questions' = [questions EXCEPT ![qid] = result]
            /\ qv' = [pc |-> "done", qid |-> qid, username |-> username, type |-> type,
                      error |-> Undefined,
                      msg |-> voteMsg(result, username, type),
                      upVotes |-> result.upVotes,
                      downVotes |-> result.downVotes,
                      preUp |-> questions[qid].upVotes,
                      preDown |-> questions[qid].downVotes]

AddVoteToQuestion(qid, username, type) ==
  /\ addVoteToQuestion(qid, username, type)
  /\ UNCHANGED <<calls, now, strictQuery, users, notifications, polls, pollOptions,
                 communities, pv, sw, sp, nf, bt, sb, answers, rs, challenges,
                 userChallenges, unlockedTitles, fc, mr, tags, tg, sc, toggled, qlist,
                 rk>>

(***************************************************************************)
(* Poll collection schema (models/schema/poll.ts).  Mongoose keeps a       *)
(* schema strict: a path that the schema does not declare is dropped from  *)
(* the document given to create() and from the $set of an update.  Whether *)
(* such a path is also dropped from a query filter is the strictQuery      *)
(* option, whose default differs between mongoose releases.                *)
(***************************************************************************)
PollSchemaPaths == {"title", "options", "createdBy", "pollDateTime", "pollDueDate"}

\* value stored for `path` by create() or $set, given the value stored before
castPollPath(path, value, old) == IF path \in PollSchemaPaths THEN value ELSE old

\* does a stored poll match the filter { isClosed: false } of closeExpiredPolls
matchesIsClosedFalse(poll) ==
  IF "isClosed" \notin PollSchemaPaths /\ strictQuery
    THEN TRUE
    ELSE poll.isClosed = "false"

OptionTexts == <<"Option 1", "Option 2">>
PollIdArgs == 1..MaxPolls
OptionIdArgs == 1..(MaxPolls * Len(OptionTexts))
DueDates == 1..MaxTime
PollCreators == {"alice"}
Voters == {"alice", "bob"}

(***************************************************************************)
(* saveAndAddPollToCommunity: create every option, create the poll, push   *)
(* the poll id to the community                                            *)
(***************************************************************************)
\* the record of a call that has returned: the saved poll or the error
savePollReturn(call, error) ==
  [pc |-> "done", communityId |-> call.communityId, createdBy |-> "",
   pollDueDate |-> 0, isClosed |-> Undefined, optionIds |-> <<>>,
   savedPoll |-> call.savedPoll, error |-> error]

SavePollCreateOption(communityId, createdBy, pollDueDate, isClosed) ==
  /\ Len(polls) + (IF sp.pc \in {"options", "poll", "community"} THEN 1 ELSE 0) <= MaxPolls
  /\ \/ /\ sp.pc \in {"idle", "done"}
        /\ Len(polls) < MaxPolls
        /\ pollOptions' = Append(pollOptions, [usersVoted |-> <<>>])
        /\ sp' = [pc |-> IF Len(OptionTexts) = 1 THEN "poll" ELSE "options",
                  communityId |-> communityId,
                  createdBy |-> createdBy, pollDueDate |-> pollDueDate,
                  isClosed |-> isClosed,
                  optionIds |-> <<Len(pollOptions) + 1>>,
                  savedPoll |-> 0, error |-> Undefined]
     \/ /\ sp.pc = "options"
        /\ communityId = sp.communityId /\ createdBy = sp.createdBy
        /\ pollDueDate = sp.pollDueDate /\ isClosed = sp.isClosed
        /\ pollOptions' = Append(pollOptions, [usersVoted |-> <<>>])
        /\ sp' = [sp EXCEPT
                    !.optionIds = Append(@, Len(pollOptions) + 1),
                    !.pc = IF Len(sp.optionIds) + 1 = Len(OptionTexts)
                             THEN "poll" ELSE "options"]
  /\ UNCHANGED <<calls, now, strictQuery, questions, users, notifications, polls,
                 communities, qv, pv, sw, nf, bt, sb, answers, rs, challenges,
                 userChallenges, unlockedTitles, fc, mr, tags, tg, sc, toggled, qlist,
                 rk>>

SavePollCreatePoll ==
  /\ sp.pc = "poll"
  /\ polls' = Append(polls,
                [options |-> sp.optionIds,
                 createdBy |-> sp.createdBy,
                 pollDueDate |-> sp.pollDueDate,
                 isClosed |-> castPollPath("isClosed", sp.isClosed, Undefined)])
  /\ sp' = [sp EXCEPT !.pc = "community", !.savedPoll = Len(polls) + 1]
  /\ UNCHANGED <<calls, now, strictQuery, questions, users, notifications, pollOptions,
                 communities, qv, pv, sw, nf, bt, sb, answers, rs, challenges,
                 userChallenges, unlockedTitles, fc, mr, tags, tg, sc, toggled, qlist,
                 rk>>

SavePollAddToCommunity ==
  /\ sp.pc = "community"
  /\ IF sp.communityId \in DOMAIN communities
       THEN /\ communities' = [communities EXCEPT
                                 ![sp.communityId].polls = Append(@, sp.savedPoll)]
            /\ sp' = savePollReturn(sp, Undefined)
       ELSE /\ sp' = savePollReturn(sp, "Community not found")
            /\ UNCHANGED communities
  /\ UNCHANGED <<calls, now, strictQuery, questions, users, notifications, polls,
                 pollOptions, qv, pv, sw, nf, bt, sb, answers, rs, challenges,
                 userChallenges, unlockedTitles, fc, mr, tags, tg, sc, toggled, qlist,
                 rk>>

(***************************************************************************)
(* addVoteToPollOption                                                     *)
(***************************************************************************)
\* poll.options after populate: the usersVoted array of every option
populateOptions(poll) == [i \in DOMAIN poll.options |-> pollOptions[poll.options[i]].usersVoted]

hasVoted_never(options, optionIds, optionId, username) == FALSE

hasVoted_targetOnly(options, optionIds, optionId, username) ==
  \E i \in DOMAIN options : optionIds[i] = optionId /\ includes(options[i], username)

hasVoted(options, optionIds, optionId, username) ==
  \E i \in DOMAIN options : includes(options[i], username)

isClosedForVoting_strict(isClosed, pollDueDate, t) ==
  isClosed = "true" \/ pollDueDate < t

isClosedForVoting(isClosed, pollDueDate, t) ==
  isClosed = "true" \/ pollDueDate <= t

\* caller c returns: its record holds the result until the slot is reused; the
\* result of a call that returned earlier has been sent and is forgotten
VoteReturns(c, call, error) ==
  pv' = [d \in VoteCallers |->
           IF d = c THEN [call EXCEPT !.pc = "done", !.error = error]
           ELSE IF pv[d].pc = "done" THEN Idle
           ELSE pv[d]]

\* a new call takes the first free caller slot
FirstFree(c) ==
  /\ pv[c].pc \in {"idle", "done"}
  /\ c = "v2" => pv["v1"].pc \notin {"idle", "done"}

\* findById(pollId).populate(options) and the checks made on its result.  The
\* poll is read and `new Date()` is taken in one step: a poll is never deleted
\* and its due date never changes, so a clock tick between the read and the
\* check gives the result of taking this step after or before the tick.
VoteFindPoll(c, pollId, optionId, username) ==
  /\ FirstFree(c)
  /\ calls.vote < MaxVoteCalls
  /\ calls' = [calls EXCEPT !.vote = @ + 1]
  /\ LET call == [pc |-> "update", pollId |-> pollId, optionId |-> optionId,
                  username |-> username, error |-> Undefined]
     IN IF pollId \notin DOMAIN polls
          THEN VoteReturns(c, call, "Poll not found")
        ELSE IF isClosedForVoting(polls[pollId].isClosed,
                                  polls[pollId].pollDueDate, now)
          THEN VoteReturns(c, call, "Unable to vote in closed poll")
        ELSE IF hasVoted(populateOptions(polls[pollId]), polls[pollId].options,
                         optionId, username)
          THEN VoteReturns(c, call, "User has already voted in this poll")
        ELSE pv' = [pv EXCEPT ![c] = call]
  /\ UNCHANGED <<now, strictQuery, questions, users, notifications, polls, pollOptions,
                 communities, qv, sw, sp, nf, bt, sb, answers, rs, challenges,
                 userChallenges, unlockedTitles, fc, mr, tags, tg, sc, toggled, qlist,
                 rk>>

VoteUpdateOption(c) ==
  /\ pv[c].pc = "update"
  /\ IF pv[c].optionId \in DOMAIN pollOptions
       THEN /\ pollOptions' = [pollOptions EXCEPT
                                 ![pv[c].optionId].usersVoted =
                                    AddToSet(@, pv[c].username)]
            /\ pv' = [pv EXCEPT ![c].pc = "refetch"]
       ELSE /\ VoteReturns(c, pv[c], "Poll option not found")
            /\ UNCHANGED pollOptions
  /\ UNCHANGED <<calls, now, strictQuery, questions, users, notifications, polls,
                 communities, qv, sw, sp, nf, bt, sb, answers, rs, challenges,
                 userChallenges, unlockedTitles, fc, mr, tags, tg, sc, toggled, qlist,
                 rk>>

VoteRefetchPoll(c) ==
  /\ pv[c].pc = "refetch"
  /\ IF pv[c].pollId \in DOMAIN polls
       THEN VoteReturns(c, pv[c], Undefined)
       ELSE VoteReturns(c, pv[c], "Error retrieving updated poll")
  /\ UNCHANGED <<calls, now, strictQuery, questions, users, notifications, polls,
                 pollOptions, communities, qv, sw, sp, nf, bt, sb, answers, rs,
                 challenges, userChallenges, unlockedTitles, fc, mr, tags, tg, sc,
                 toggled, qlist, rk>>

(***************************************************************************)
(* closeExpiredPolls                                                       *)
(***************************************************************************)
\* no other call is in flight, and no poll has been saved since the sweep began
NothingElseRuns(s, nPolls) ==
  /\ sp.pc \in {"idle", "done"}
  /\ \A c \in VoteCallers : pv[c].pc \in {"idle", "done"}
  /\ \A r \in DOMAIN sw \ {s} : sw[r].pc \in {"idle", "done"}
  /\ Len(polls) = nPolls

\* the filter is built, with `new Date()`, when the function is called
SweepCall(s) ==
  /\ sw[s].pc \in {"idle", "done"}
  /\ sw' = [sw EXCEPT ![s] =
              [pc |-> "find", at |-> now, nPolls |-> Len(polls),
               alone |-> NothingElseRuns(s, Len(polls)),
               wasClosed |-> {}, pollsToClose |-> {},
               closedPolls |-> [p \in {} |-> Undefined],
               error |-> Undefined]]
  /\ UNCHANGED <<calls, now, strictQuery, questions, users, notifications, polls,
                 pollOptions, communities, qv, pv, sp, nf, bt, sb, answers, rs,
                 challenges, userChallenges, unlockedTitles, fc, mr, tags, tg, sc,
                 toggled, qlist, rk>>

SweepFind(s) ==
  /\ sw[s].pc = "find"
  /\ LET pollsToClose == {p \in DOMAIN polls :
                            /\ polls[p].pollDueDate <= sw[s].at
                            /\ matchesIsClosedFalse(polls[p])}
     IN sw' = [sw EXCEPT ![s].pc = "update",
                         ![s].alone = @ /\ NothingElseRuns(s, sw[s].nPolls),
                         ![s].wasClosed = {p \in DOMAIN polls :
                                             polls[p].isClosed = "true"},
                         ![s].pollsToClose = pollsToClose]
  /\ UNCHANGED <<calls, now, strictQuery, questions, users, notifications, polls,
                 pollOptions, communities, qv, pv, sp, nf, bt, sb, answers, rs,
                 challenges, userChallenges, unlockedTitles, fc, mr, tags, tg, sc,
                 toggled, qlist, rk>>

\* the updates of a sweep are under way until the call returns them; those
\* still under way when the call has returned an error are applied all the same
SweepUpdatesUnderWay(s) ==
  IF sw[s].pc = "idle"
    THEN FALSE
    ELSE sw[s].pc = "update" \/ (sw[s].pc = "done" /\ sw[s].error # Undefined)

\* findOneAndUpdate({_id}, {$set: {isClosed: true}}, {new: true}) of one poll;
\* the updates of one sweep are issued together and applied in any order
SweepUpdate(s, p) ==
  /\ SweepUpdatesUnderWay(s)
  /\ p \in sw[s].pollsToClose \ DOMAIN sw[s].closedPolls
  /\ LET updated == [polls[p] EXCEPT
                       !.isClosed = castPollPath("isClosed", "true", @)]
     IN /\ polls' = [polls EXCEPT ![p] = updated]
        /\ sw' = [sw EXCEPT ![s].alone = @ /\ NothingElseRuns(s, sw[s].nPolls),
                            ![s].closedPolls =
                               [q \in DOMAIN @ \cup {p} |->
                                  IF q = p THEN updated.isClosed ELSE @[q]]]
  /\ UNCHANGED <<calls, now, strictQuery, questions, users, notifications, pollOptions,
                 communities, qv, pv, sp, nf, bt, sb, answers, rs, challenges,
                 userChallenges, unlockedTitles, fc, mr, tags, tg, sc, toggled, qlist,
                 rk>>

SweepReturn(s) ==
  /\ sw[s].pc = "update"
  /\ sw[s].pollsToClose = DOMAIN sw[s].closedPolls
  /\ sw' = [sw EXCEPT ![s].pc = "done",
                      ![s].alone = @ /\ NothingElseRuns(s, sw[s].nPolls)]
  /\ UNCHANGED <<calls, now, strictQuery, questions, users, notifications, polls,
                 pollOptions, communities, qv, pv, sp, nf, bt, sb, answers, rs,
                 challenges, userChallenges, unlockedTitles, fc, mr, tags, tg, sc,
                 toggled, qlist, rk>>

Tick ==
  /\ now < MaxTime
  /\ now' = now + 1
  /\ UNCHANGED <<calls, strictQuery, questions, users, notifications, polls,
                 pollOptions, communities, qv, pv, sw, sp, nf, bt, sb, answers, rs,
                 challenges, userChallenges, unlockedTitles, fc, mr, tags, tg, sc,
                 toggled, qlist, rk>>

(***************************************************************************)
(* addSubscriberToQuestion: findOne, then $pull or $push                   *)
(***************************************************************************)
SubscriberArgs == {"alice", "bob"}

SubscribeFind(qid, username) ==
  /\ sb.pc \in {"idle", "done"}
  /\ calls.subscribe < MaxSubscribeCalls
  /\ calls' = [calls EXCEPT !.subscribe = @ + 1]
  /\ sb' = IF qid \in DOMAIN questions
             THEN [pc |-> "update", qid |-> qid, username |-> username,
                   pull |-> includes(questions[qid].subscribers, username),
                   error |-> Undefined]
             ELSE [pc |-> "done", qid |-> qid, username |-> username,
                   pull |-> FALSE, error |-> "Question not found"]
  /\ UNCHANGED <<now, strictQuery, questions, users, notifications, polls, pollOptions,
                 communities, qv, pv, sw, sp, nf, bt, answers, rs, challenges,
                 userChallenges, unlockedTitles, fc, mr, tags, tg, sc, toggled, qlist,
                 rk>>

SubscribeUpdate ==
  /\ sb.pc = "update"
  /\ questions' = [questions EXCEPT ![sb.qid].subscribers =
                     IF sb.pull THEN Pull(@, sb.username)
                                ELSE Append(@, sb.username)]
  /\ sb' = [sb EXCEPT !.pc = "done"]
  /\ UNCHANGED <<calls, now, strictQuery, users, notifications, polls, pollOptions,
                 communities, qv, pv, sw, sp, nf, bt, answers, rs, challenges,
                 userChallenges, unlockedTitles, fc, mr, tags, tg, sc, toggled, qlist,
                 rk>>

(***************************************************************************)
(* updateBlockedTypes: findOne, then $pull or $push                        *)
(***************************************************************************)
BlockerArgs == {"alice", "bob"}

BlockFind(username, type) ==
  /\ bt.pc \in {"idle", "done"}
  /\ calls.block < MaxBlockCalls
  /\ calls' = [calls EXCEPT !.block = @ + 1]
  /\ bt' = IF username \in DOMAIN users
             THEN [pc |-> "update", username |-> username, type |-> type,
                   pull |-> includes(users[username].blockedNotifications, type),
                   error |-> Undefined]
             ELSE [pc |-> "done", username |-> username, type |-> type,
                   pull |-> FALSE, error |-> "User not found"]
  /\ UNCHANGED <<now, strictQuery, questions, users, notifications, polls, pollOptions,
                 communities, qv, pv, sw, sp, nf, sb, answers, rs, challenges,
                 userChallenges, unlockedTitles, fc, mr, tags, tg, sc, toggled, qlist,
                 rk>>

BlockUpdate ==
  /\ bt.pc = "update"
  /\ users' = [users EXCEPT ![bt.username].blockedNotifications =
                 IF bt.pull THEN Pull(@, bt.type) ELSE Append(@, bt.type)]
  /\ bt' = [bt EXCEPT !.pc = "done"]
  /\ UNCHANGED <<calls, now, strictQuery, questions, notifications, polls, pollOptions,
                 communities, qv, pv, sw, sp, nf, sb, answers, rs, challenges,
                 userChallenges, unlockedTitles, fc, mr, tags, tg, sc, toggled, qlist,
                 rk>>

(***************************************************************************)
(* usersToNotify: the recipient list of a notification type                *)
(***************************************************************************)
ResolveError == <<"error">>

usersToNotifyOnNewAnswer(qid) ==
  IF qid \notin DOMAIN questions
    THEN ResolveError
    ELSE <<questions[qid].askedBy>> \o questions[qid].subscribers

questionAskerToNotify(qid) ==
  IF qid \notin DOMAIN questions
    THEN ResolveError
    ELSE <<questions[qid].askedBy>>

\* userToNotifyOnAnswerComment
userToNotifyOnAnswerComment(answerID) ==
  IF answerID \notin DOMAIN answers
    THEN ResolveError
    ELSE <<answers[answerID].ansBy>>

\* the ids under which polls, articles and users are named to the resolvers
PollOidOf == <<"p1", "p2", "p3">>
ArticleIds == {"ar1"}
UserOidOf == [u \in Usernames |->
                CASE u = "alice" -> "u1" [] u = "bob" -> "u2" [] OTHER -> "u3"]

\* does community c list the object oid under the given object type
listsObject(c, oid, type) ==
  CASE type = "Question" -> includes(communities[c].questions, oid)
    [] type = "Poll" -> \E i \in DOMAIN communities[c].polls :
                          /\ communities[c].polls[i] \in DOMAIN PollOidOf
                          /\ PollOidOf[communities[c].polls[i]] = oid
    [] type = "Article" -> includes(communities[c].articles, oid)
    [] OTHER -> FALSE

\* fetchCommunityByObjectId(oid, type).members, or the error it throws
fetchCommunityByObjectId(oid, type) ==
  LET found == {c \in DOMAIN communities : listsObject(c, oid, type)}
  IN IF found = {}
       THEN ResolveError
       ELSE communities[CHOOSE c \in found : TRUE].members

RECURSIVE flat(_)
flat(arrs) == IF arrs = <<>> THEN <<>> ELSE Head(arrs) \o flat(Tail(arrs))

usersToNotifyPollClosed_creatorOnly(pid) ==
  LET found == {p \in DOMAIN polls : p \in DOMAIN PollOidOf /\ PollOidOf[p] = pid}
  IN IF found = {}
       THEN ResolveError
       ELSE LET poll == polls[CHOOSE p \in found : TRUE]
            IN <<poll.createdBy>>

usersToNotifyPollClosed(pid) ==
  LET found == {p \in DOMAIN polls : p \in DOMAIN PollOidOf /\ PollOidOf[p] = pid}
  IN IF found = {}
       THEN ResolveError
       ELSE LET poll == polls[CHOOSE p \in found : TRUE]
            IN <<poll.createdBy>> \o flat(populateOptions(poll))

userToNotifyForReward(uid) ==
  LET found == {u \in DOMAIN users : UserOidOf[u] = uid}
  IN IF found = {}
       THEN ResolveError
       ELSE <<CHOOSE u \in found : TRUE>>

usersToNotify(oid, type) ==
  CASE type = "Answer" -> usersToNotifyOnNewAnswer(oid)
    [] type = "Comment" -> questionAskerToNotify(oid)
    [] type = "AnswerComment" -> userToNotifyOnAnswerComment(oid)
    [] type = "Upvote" -> questionAskerToNotify(oid)
    [] type = "NewQuestion" -> fetchCommunityByObjectId(oid, "Question")
    [] type = "NewPoll" -> fetchCommunityByObjectId(oid, "Poll")
    [] type = "PollClosed" -> usersToNotifyPollClosed(oid)
    [] type = "NewArticle" -> fetchCommunityByObjectId(oid, "Article")
    [] type = "ArticleUpdate" -> fetchCommunityByObjectId(oid, "Article")
    [] type = "NewReward" -> userToNotifyForReward(oid)
    [] OTHER -> <<>>

\* a direct usersToNotify call: the usernames, or the error it returns
Resolve(oid, type) ==
  /\ rs' = [pc |-> "done", oid |-> oid, type |-> type,
            usernames |-> IF usersToNotify(oid, type) = ResolveError
                            THEN <<>> ELSE usersToNotify(oid, type),
            error |-> IF usersToNotify(oid, type) = ResolveError
                        THEN "Error retrieving users to notify" ELSE Undefined]
  /\ UNCHANGED <<calls, now, strictQuery, questions, users, notifications, polls,
                 pollOptions, communities, qv, pv, sw, sp, nf, bt, sb, answers,
                 challenges, userChallenges, unlockedTitles, fc, mr, tags, tg, sc,
                 toggled, qlist, rk>>

(***************************************************************************)
(* notifyUsers: resolve, create one Notification per username, then attach *)
(* each to its user (addNotificationToUser: findOne, then $push at 0)      *)
(***************************************************************************)
isBlocked_never(user, type) == FALSE

isBlocked(user, type) == includes(user.blockedNotifications, type)

notifyReturn_keepsList(call, error) ==
  [call EXCEPT !.pc = "done", !.error = error, !.ret = call.usernames]

\* the call returns the resolved usernames, or an error
notifyReturn(call, error) ==
  [call EXCEPT !.pc = "done", !.error = error,
               !.ret = IF error = Undefined THEN call.usernames ELSE <<>>]

resolutionFailed_errorOnly(usernames) == usernames = ResolveError

resolutionFailed_emptyOnly(usernames) == Len(usernames) = 0

\* 'error' in usernames || !usernames.length
resolutionFailed(usernames) == usernames = ResolveError \/ Len(usernames) = 0

NotifyResolve(c, oid, type) ==
  /\ nf[c].pc \in {"idle", "done"}
  /\ calls.notify < MaxNotifyCalls
  /\ calls' = [calls EXCEPT !.notify = @ + 1]
  /\ LET usernames == IF oid = Undefined THEN ResolveError
                                          ELSE usersToNotify(oid, type)
         call == [pc |-> "create", oid |-> oid, type |-> type,
                  usernames |-> <<>>, created |-> <<>>, att |-> <<>>,
                  ret |-> <<>>, error |-> Undefined]
     IN IF resolutionFailed(usernames)
          THEN nf' = [nf EXCEPT ![c] =
                        notifyReturn(call, "Error when adding notifications to users")]
          ELSE /\ Len(notifications) + Len(usernames) <= MaxNotifs
               /\ nf' = [nf EXCEPT ![c] = [call EXCEPT !.usernames = usernames]]
  /\ UNCHANGED <<now, strictQuery, questions, users, notifications, polls, pollOptions,
                 communities, qv, pv, sw, sp, bt, sb, answers, rs, challenges,
                 userChallenges, unlockedTitles, fc, mr, tags, tg, sc, toggled, qlist,
                 rk>>

creationFailed_never(created) == FALSE

\* 'error' in notifResponse, for some response of the saveNotification calls:
\* a failed save is recorded as 0 in place of the _id
creationFailed(created) == includes(created, 0)

\* the call record after the saveNotification of the next username has come
\* back with `saved` (an _id, or 0 for { error }): when every save has come
\* back, the call throws if one failed and else starts the attachments
notifySaved(call, saved) ==
  LET created == Append(call.created, saved)
  IN IF Len(created) < Len(call.usernames)
       THEN [call EXCEPT !.created = created]
     ELSE IF creationFailed(created)
       THEN notifyReturn([call EXCEPT !.created = created],
                         "Error when adding notifications to users")
     ELSE [call EXCEPT !.created = created, !.pc = "attach",
                       !.att = [i \in DOMAIN call.usernames |-> "find"]]

\* saveNotification for the next username: NotificationModel.create
NotifyCreate(c) ==
  /\ nf[c].pc = "create"
  /\ notifications' = Append(notifications,
                             [notificationType |-> nf[c].type, isRead |-> FALSE])
  /\ nf' = [nf EXCEPT ![c] = notifySaved(nf[c], Len(notifications) + 1)]
  /\ UNCHANGED <<calls, now, strictQuery, questions, users, polls, pollOptions,
                 communities, qv, pv, sw, sp, bt, sb, answers, rs, challenges,
                 userChallenges, unlockedTitles, fc, mr, tags, tg, sc, toggled, qlist,
                 rk>>

\* addNotificationToUser(usernames[i], notifsFromDb[i]): UserModel.findOne
NotifyAttachFind(c, i) ==
  /\ nf[c].pc = "attach"
  /\ i \in DOMAIN nf[c].att
  /\ nf[c].att[i] = "find"
  /\ nf' = [nf EXCEPT ![c].att[i] =
              IF nf[c].usernames[i] \notin DOMAIN users
                THEN "error"
              ELSE IF isBlocked(users[nf[c].usernames[i]], nf[c].type)
                THEN "skipped"
              ELSE "push"]
  /\ UNCHANGED <<calls, now, strictQuery, questions, users, notifications, polls,
                 pollOptions, communities, qv, pv, sw, sp, bt, sb, answers, rs,
                 challenges, userChallenges, unlockedTitles, fc, mr, tags, tg, sc,
                 toggled, qlist, rk>>

notifsFromDb_first(call, i) == call.created[1]

\* notifsFromDb[i]: the record created for the i-th username
notifsFromDb(call, i) == call.created[i]

\* addNotificationToUser(usernames[i], notifsFromDb[i]): findOneAndUpdate $push
NotifyAttachPush(c, i) ==
  /\ nf[c].pc = "attach"
  /\ i \in DOMAIN nf[c].att
  /\ nf[c].att[i] = "push"
  /\ IF nf[c].usernames[i] \in DOMAIN users
       THEN /\ users' = [users EXCEPT ![nf[c].usernames[i]].notifications =
                           Unshift(@, notifsFromDb(nf[c], i))]
            /\ nf' = [nf EXCEPT ![c].att[i] = "pushed"]
       ELSE /\ nf' = [nf EXCEPT ![c].att[i] = "error"]
            /\ UNCHANGED users
  /\ UNCHANGED <<calls, now, strictQuery, questions, notifications, polls, pollOptions,
                 communities, qv, pv, sw, sp, bt, sb, answers, rs, challenges,
                 userChallenges, unlockedTitles, fc, mr, tags, tg, sc, toggled, qlist,
                 rk>>

NotifyReturn(c) ==
  /\ nf[c].pc = "attach"
  /\ \A i \in DOMAIN nf[c].att : nf[c].att[i] \in {"skipped", "pushed", "error"}
  /\ nf' = [nf EXCEPT ![c] =
              IF \E i \in DOMAIN nf[c].att : nf[c].att[i] = "error"
                THEN notifyReturn(@, "Error when adding notifications to users")
                ELSE notifyReturn(@, Undefined)]
  /\ UNCHANGED <<calls, now, strictQuery, questions, users, notifications, polls,
                 pollOptions, communities, qv, pv, sw, sp, bt, sb, answers, rs,
                 challenges, userChallenges, unlockedTitles, fc, mr, tags, tg, sc,
                 toggled, qlist, rk>>

(***************************************************************************)
(* Initial state: one community, one question asked by alice, three        *)
(* registered users, no polls, no notifications, no call in flight.        *)
(***************************************************************************)
(***************************************************************************)
(* Challenges.  Times are counted in ticks of ten minutes; the clock reads  *)
(* 0 when the modelled run starts, so progress entries made before the run  *)
(* carry negative times.                                                    *)
(***************************************************************************)
\* hoursToComplete * 1000 * 60 * 60, in ticks
TicksPerHour == 6

ChallengeTypes == {"answer", "question"}

\* hoursToComplete = 0 stands for a challenge without hoursToComplete
ChallengeCatalog ==
  [ch \in {"ch1", "ch2", "ch3", "ch4"} |->
     CASE ch = "ch1" -> [challengeType |-> "answer", actionAmount |-> 3,
                         hoursToComplete |-> 1, reward |-> "title1"]
       [] ch = "ch2" -> [challengeType |-> "answer", actionAmount |-> 4,
                         hoursToComplete |-> 1, reward |-> "title2"]
       [] ch = "ch3" -> [challengeType |-> "answer", actionAmount |-> 2,
                         hoursToComplete |-> 0, reward |-> "title3"]
       [] ch = "ch4" -> [challengeType |-> "answer", actionAmount |-> 3,
                         hoursToComplete |-> 0, reward |-> "title4"]]

expire_never(progress, challenge, currentTime) == progress

expire_strict(progress, challenge, currentTime) ==
  IF challenge.hoursToComplete # 0
    THEN SelectSeq(progress,
           LAMBDA p : p > currentTime - challenge.hoursToComplete * TicksPerHour)
    ELSE progress

\* timed challenges drop the progress entries older than the deadline
expire(progress, challenge, currentTime) ==
  IF challenge.hoursToComplete # 0
    THEN SelectSeq(progress,
           LAMBDA p : p >= currentTime - challenge.hoursToComplete * TicksPerHour)
    ELSE progress

isComplete_oneShort(progress, challenge) == Len(progress) >= challenge.actionAmount - 1

\* uc.progress.length === uc.challenge.actionAmount
isComplete(progress, challenge) == Len(progress) = challenge.actionAmount

selectable_any(uc, challengeType) ==
  challenges[uc.challenge].challengeType = challengeType

\* the filter of the fetched UserChallenges: matching type and not complete
selectable(uc, challengeType) ==
  /\ challenges[uc.challenge].challengeType = challengeType
  /\ Len(uc.progress) < challenges[uc.challenge].actionAmount

FirstFreeFetch(c) ==
  /\ fc[c].pc \in {"idle", "done"}
  /\ c = "f2" => fc["f1"].pc \notin {"idle", "done"}

\* the call returns from the step `call.pc`: the updated records or the error
fetchReturn(call, error) ==
  [call EXCEPT !.pc = "done", !.error = error, !.at = call.pc]

userExists_always(username) == TRUE

\* UserModel.findOne({ username }) returns a document
userExists(username) == username \in DOMAIN users

\* UserModel.findOne({ username })
FetchFindUser(c, username, challengeType) ==
  /\ FirstFreeFetch(c)
  /\ calls.challenge < MaxChallengeCalls
  /\ calls' = [calls EXCEPT !.challenge = @ + 1]
  /\ LET call == [pc |-> "fetch", username |-> username,
                  challengeType |-> challengeType, currentTime |-> 0,
                  known |-> {}, read |-> << >>, toWrite |-> << >>,
                  toStart |-> {}, toReward |-> {}, toUpdate |-> {},
                  at |-> "", error |-> Undefined]
     IN fc' = [fc EXCEPT ![c] = IF userExists(username)
                                  THEN call
                                  ELSE fetchReturn(call, "User not found")]
  /\ UNCHANGED <<now, strictQuery, questions, users, notifications, polls, pollOptions,
                 communities, qv, pv, sw, sp, nf, bt, sb, answers, rs, challenges,
                 userChallenges, unlockedTitles, mr, tags, tg, sc, toggled, qlist, rk>>

\* fetchUserChallengesByUsername, the filter, `new Date()` and the pruning
FetchUserChallenges(c) ==
  /\ fc[c].pc = "fetch"
  /\ LET mine == {k \in DOMAIN userChallenges :
                    userChallenges[k].username = fc[c].username}
         selected == {k \in mine : selectable(userChallenges[k], fc[c].challengeType)}
     IN fc' = [fc EXCEPT
                 ![c].pc = "challenges",
                 ![c].currentTime = now,
                 ![c].known = {userChallenges[k].challenge : k \in mine},
                 ![c].read = [k \in selected |-> userChallenges[k].progress],
                 ![c].toWrite =
                    [k \in selected |->
                       Append(expire(userChallenges[k].progress,
                                     challenges[userChallenges[k].challenge], now),
                              now)]]
  /\ UNCHANGED <<calls, now, strictQuery, questions, users, notifications, polls,
                 pollOptions, communities, qv, pv, sw, sp, nf, bt, sb, answers, rs,
                 challenges, userChallenges, unlockedTitles, mr, tags, tg, sc, toggled,
                 qlist, rk>>

\* after the creations: which rewards to distribute, which records to update
fetchDistribute(call, ucs) ==
  [call EXCEPT
     !.pc = "reward",
     !.toReward = {k \in DOMAIN call.toWrite :
                     isComplete(call.toWrite[k], challenges[ucs[k].challenge])},
     !.toUpdate = DOMAIN call.toWrite]

challengesToStart_none(known, challengeType) == {}

\* the challenges of the type without a record among the fetched ones
challengesToStart(known, challengeType) ==
  {ch \in DOMAIN challenges :
     /\ challenges[ch].challengeType = challengeType
     /\ ch \notin known}

\* ChallengeModel.find({ challengeType }) and challengesToStart
FetchChallenges(c) ==
  /\ fc[c].pc = "challenges"
  /\ LET toStart == challengesToStart(fc[c].known, fc[c].challengeType)
     IN fc' = [fc EXCEPT ![c] =
                 IF toStart = {}
                   THEN fetchDistribute(@, userChallenges)
                   ELSE [@ EXCEPT !.pc = "create", !.toStart = toStart]]
  /\ UNCHANGED <<calls, now, strictQuery, questions, users, notifications, polls,
                 pollOptions, communities, qv, pv, sw, sp, nf, bt, sb, answers, rs,
                 challenges, userChallenges, unlockedTitles, mr, tags, tg, sc, toggled,
                 qlist, rk>>

\* saveUserChallenge for one challenge to start: UserChallengeModel.create
FetchCreateUserChallenge(c, ch) ==
  /\ fc[c].pc = "create"
  /\ ch \in fc[c].toStart
  /\ LET ucs == Append(userChallenges,
                       [username |-> fc[c].username, challenge |-> ch,
                        progress |-> <<>>])
         call == [fc[c] EXCEPT
                    !.toStart = @ \ {ch},
                    !.toWrite = @ @@ (Len(ucs) :> <<fc[c].currentTime>>)]
     IN /\ userChallenges' = ucs
        /\ fc' = [fc EXCEPT ![c] = IF call.toStart = {}
                                     THEN fetchDistribute(call, ucs)
                                     ELSE call]
  /\ UNCHANGED <<calls, now, strictQuery, questions, users, notifications, polls,
                 pollOptions, communities, qv, pv, sw, sp, nf, bt, sb, answers, rs,
                 challenges, unlockedTitles, mr, tags, tg, sc, toggled, qlist, rk>>

\* distributeRewardsIfChallengeComplete, one record: $addToSet unlockedTitles
FetchReward(c, k) ==
  /\ fc[c].pc = "reward"
  /\ k \in fc[c].toReward
  /\ unlockedTitles' =
       IF fc[c].username \in DOMAIN unlockedTitles
         THEN [unlockedTitles EXCEPT ![fc[c].username] =
                 AddToSet(@, challenges[userChallenges[k].challenge].reward)]
         ELSE unlockedTitles
  /\ fc' = [fc EXCEPT ![c].toReward = @ \ {k}]
  /\ UNCHANGED <<calls, now, strictQuery, questions, users, notifications, polls,
                 pollOptions, communities, qv, pv, sw, sp, nf, bt, sb, answers, rs,
                 challenges, userChallenges, mr, tags, tg, sc, toggled, qlist, rk>>

\* UserChallengeModel.findOneAndUpdate({ _id }, { progress }), one record
FetchUpdate(c, k) ==
  /\ fc[c].pc = "reward"
  /\ fc[c].toReward = {}
  /\ k \in fc[c].toUpdate
  /\ userChallenges' = [userChallenges EXCEPT ![k].progress = fc[c].toWrite[k]]
  /\ fc' = [fc EXCEPT ![c].toUpdate = @ \ {k}]
  /\ UNCHANGED <<calls, now, strictQuery, questions, users, notifications, polls,
                 pollOptions, communities, qv, pv, sw, sp, nf, bt, sb, answers, rs,
                 challenges, unlockedTitles, mr, tags, tg, sc, toggled, qlist, rk>>

\* every update has returned: the call returns the updated records
FetchReturn(c) ==
  /\ fc[c].pc = "reward"
  /\ fc[c].toReward = {}
  /\ fc[c].toUpdate = {}
  /\ fc' = [fc EXCEPT ![c] = fetchReturn(@, Undefined)]
  /\ UNCHANGED <<calls, now, strictQuery, questions, users, notifications, polls,
                 pollOptions, communities, qv, pv, sw, sp, nf, bt, sb, answers, rs,
                 challenges, userChallenges, unlockedTitles, mr, tags, tg, sc, toggled,
                 qlist, rk>>

\* saveUserChallenge returns an error for one challenge to start (the store
\* rejects the create): the map callback throws and the call returns the error
FetchCreateFails(c, ch) ==
  /\ fc[c].pc = "create"
  /\ ch \in fc[c].toStart
  /\ fc' = [fc EXCEPT ![c] = fetchReturn(@, "Error while saving UserChallenge")]
  /\ UNCHANGED <<calls, now, strictQuery, questions, users, notifications, polls,
                 pollOptions, communities, qv, pv, sw, sp, nf, bt, sb, answers, rs,
                 challenges, userChallenges, unlockedTitles, mr, tags, tg, sc, toggled,
                 qlist, rk>>

\* findOneAndUpdate of one record returns null or rejects: the call returns
\* the error
FetchUpdateFails(c, k) ==
  /\ fc[c].pc = "reward"
  /\ fc[c].toReward = {}
  /\ k \in fc[c].toUpdate
  /\ fc' = [fc EXCEPT ![c] = fetchReturn(@, "Error while updating UserChallenges")]
  /\ UNCHANGED <<calls, now, strictQuery, questions, users, notifications, polls,
                 pollOptions, communities, qv, pv, sw, sp, nf, bt, sb, answers, rs,
                 challenges, userChallenges, unlockedTitles, mr, tags, tg, sc, toggled,
                 qlist, rk>>

InitBuild(strict) ==
  /\ now = 0
  /\ strictQuery = strict
  /\ questions = [q \in QIds |->
                    [askedBy |-> "alice", subscribers |-> <<>>,
                     upVotes |-> <<>>, downVotes |-> <<>>]]
  /\ users = [u \in Usernames |->
                [notifications |-> <<>>, blockedNotifications |-> <<>>]]
  /\ notifications = <<>>
  /\ polls = <<>>
  /\ pollOptions = <<>>
  /\ communities = [c \in CommunityIds |->
                      [polls |-> <<>>, members |-> <<>>, questions |-> <<>>,
                       articles |-> <<>>]]
  /\ answers = [a \in AnswerIds |-> [ansBy |-> "bob"]]
  /\ rs = Idle
  /\ challenges = << >>
  /\ userChallenges = <<>>
  /\ unlockedTitles = [u \in Usernames |-> <<>>]
  /\ fc = [c \in ChallengeCallers |-> Idle]
  /\ qv = Idle
  /\ pv = [c \in VoteCallers |-> Idle]
  /\ sw = [s \in Sweepers |-> Idle]
  /\ sp = Idle
  /\ nf = [c \in NotifyCallers |-> Idle]
  /\ bt = Idle
  /\ sb = Idle
  /\ calls = NoCalls
  /\ mr = Idle
  /\ tags = <<>>
  /\ tg = [c \in TagCallers |-> Idle]
  /\ sc = [c \in SubscribeCallers |-> Idle]
  /\ toggled = [u \in SubscriberArgs |-> 0]
  /\ qlist = <<>>
  /\ rk = Idle

\* the build with the strictQuery default of the current mongoose releases
Init == InitBuild(FALSE)

\* stores that earlier subscribe, join, post, save-poll and vote calls leave
\* behind: "dave" subscribed without having a User record
SubscriberLists == {<<>>, <<"bob">>, <<"alice">>, <<"bob", "dave">>}
MemberLists == {<<>>, <<"alice">>, <<"alice", "carol">>}
PostedQuestionLists == {<<>>, <<"q1">>}
PostedArticleLists == {<<>>, <<"ar1">>}
\* no poll, or one poll of alice with the usersVoted of its two options
SavedPolls == {<<>>, <<<<>>, <<>>>>, <<<<"bob">>, <<>>>>,
               <<<<"bob">>, <<"carol">>>>, <<<<"alice">>, <<"bob">>>>}

InitStoreOf(subscriberLists, memberLists, questionLists, articleLists, savedPolls) ==
  \E subscribers \in subscriberLists, members \in memberLists,
     posted \in questionLists, articles \in articleLists,
     voted \in savedPolls :
    /\ now = 0
    /\ strictQuery = FALSE
    /\ questions = [q \in QIds |->
                      [askedBy |-> "alice", subscribers |-> subscribers,
                       upVotes |-> <<>>, downVotes |-> <<>>]]
    /\ users = [u \in Usernames |->
                  [notifications |-> <<>>, blockedNotifications |-> <<>>]]
    /\ notifications = <<>>
    /\ polls = IF voted = <<>> THEN <<>>
                ELSE <<[options |-> <<1, 2>>, createdBy |-> "alice",
                        pollDueDate |-> 1, isClosed |-> Undefined]>>
    /\ pollOptions = [i \in DOMAIN voted |-> [usersVoted |-> voted[i]]]
    /\ communities = [c \in CommunityIds |->
                        [polls |-> IF voted = <<>> THEN <<>> ELSE <<1>>,
                         members |-> members, questions |-> posted,
                         articles |-> articles]]
    /\ answers = [a \in AnswerIds |-> [ansBy |-> "bob"]]
    /\ qv = Idle
    /\ pv = [c \in VoteCallers |-> Idle]
    /\ sw = [s \in Sweepers |-> Idle]
    /\ sp = Idle
    /\ nf = [c \in NotifyCallers |-> Idle]
    /\ bt = Idle
    /\ sb = Idle
    /\ rs = Idle
    /\ challenges = << >>
    /\ userChallenges = <<>>
    /\ unlockedTitles = [u \in Usernames |-> <<>>]
    /\ fc = [c \in ChallengeCallers |-> Idle]
  /\ challenges = << >>
  /\ userChallenges = <<>>
  /\ unlockedTitles = [u \in Usernames |-> <<>>]
  /\ fc = [c \in ChallengeCallers |-> Idle]
    /\ calls = NoCalls
    /\ mr = Idle
    /\ tags = <<>>
    /\ tg = [c \in TagCallers |-> Idle]
    /\ sc = [c \in SubscribeCallers |-> Idle]
    /\ toggled = [u \in SubscriberArgs |-> 0]
    /\ qlist = <<>>
    /\ rk = Idle

\* stores that earlier saveUserChallenge and increment calls leave behind:
\* the Challenge documents, alice's UserChallenge records, her titles
ChallengeStores ==
  { [challenges |-> {"ch1"},
     userChallenges |-> <<[username |-> "alice", challenge |-> "ch1",
                           progress |-> <<-10, -7, -1>>]>>,
     titles |-> <<"title1">>],
    [challenges |-> {"ch2"},
     userChallenges |-> <<[username |-> "alice", challenge |-> "ch2",
                           progress |-> <<-10, -7, -1>>]>>,
     titles |-> <<>>],
    [challenges |-> {"ch1", "ch3"},
     userChallenges |-> <<[username |-> "alice", challenge |-> "ch1",
                           progress |-> <<-6, -1>>],
                          [username |-> "alice", challenge |-> "ch3",
                           progress |-> <<-10>>]>>,
     titles |-> <<>>],
    [challenges |-> {"ch1", "ch3"}, userChallenges |-> <<>>, titles |-> <<>>],
    [challenges |-> {"ch4"},
     userChallenges |-> <<[username |-> "alice", challenge |-> "ch4",
                           progress |-> <<-10>>]>>,
     titles |-> <<>>] }

\* a store with these challenges, records of alice and titles of alice
InitChallengeStore(store) ==
  /\ now = 0
  /\ strictQuery = FALSE
  /\ questions = [q \in QIds |->
                    [askedBy |-> "alice", subscribers |-> <<>>,
                     upVotes |-> <<>>, downVotes |-> <<>>]]
  /\ users = [u \in Usernames |->
                [notifications |-> <<>>, blockedNotifications |-> <<>>]]
  /\ notifications = <<>>
  /\ polls = <<>>
  /\ pollOptions = <<>>
  /\ communities = [c \in CommunityIds |->
                      [polls |-> <<>>, members |-> <<>>, questions |-> <<>>,
                       articles |-> <<>>]]
  /\ answers = [a \in AnswerIds |-> [ansBy |-> "bob"]]
  /\ qv = Idle
  /\ pv = [c \in VoteCallers |-> Idle]
  /\ sw = [s \in Sweepers |-> Idle]
  /\ sp = Idle
  /\ nf = [c \in NotifyCallers |-> Idle]
  /\ bt = Idle
  /\ sb = Idle
  /\ rs = Idle
  /\ calls = NoCalls
  /\ mr = Idle
  /\ tags = <<>>
  /\ tg = [c \in TagCallers |-> Idle]
  /\ sc = [c \in SubscribeCallers |-> Idle]
  /\ toggled = [u \in SubscriberArgs |-> 0]
  /\ qlist = <<>>
  /\ rk = Idle
  /\ challenges = [ch \in store.challenges |-> ChallengeCatalog[ch]]
  /\ userChallenges = store.userChallenges
  /\ unlockedTitles = [u \in Usernames |->
                         IF u = "alice" THEN store.titles ELSE <<>>]
  /\ fc = [c \in ChallengeCallers |-> Idle]

InitChallenge == \E store \in ChallengeStores : InitChallengeStore(store)

InitStore ==
  InitStoreOf(SubscriberLists, MemberLists, PostedQuestionLists,
              PostedArticleLists, SavedPolls)

\* the stores the fan-out runs start from
InitFanout ==
  InitStoreOf({<<"bob">>, <<"bob", "dave">>}, {<<>>, <<"alice", "carol">>},
              {<<"q1">>}, {<<"ar1">>}, {<<<<"bob">>, <<"carol">>>>})

\* any build: strictQuery is on by default in some mongoose releases
InitAnyBuild == \E strict \in BOOLEAN : InitBuild(strict)

(***************************************************************************)
(* Question votes                                                          *)
(***************************************************************************)
NextQVote ==
  \E qid \in QIdArgs, username \in Usernames, type \in VoteTypes :
    AddVoteToQuestion(qid, username, type)

SpecQVote == Init /\ [][NextQVote]_vars

InUpOnly(qid, u) ==
  includes(questions[qid].upVotes, u) /\ ~includes(questions[qid].downVotes, u)

InDownOnly(qid, u) ==
  includes(questions[qid].downVotes, u) /\ ~includes(questions[qid].upVotes, u)

\* C1: no username is in both upVotes and downVotes of a question, in any
\* state reached by addVoteToQuestion calls from disjoint (empty) vote lists.
C1_VotesDisjoint ==
  \A qid \in DOMAIN questions :
    Range(questions[qid].upVotes) \cap Range(questions[qid].downVotes) = {}

C1_Witness ==
  /\ qv.pc = "done"
  /\ qv.error = Undefined
  /\ questions[qv.qid].upVotes # <<>>
  /\ questions[qv.qid].downVotes # <<>>
  /\ includes(qv.preDown, qv.username)
  /\ qv.type = "upvote"

\* C2: a downvote by a user who is in upVotes only moves the user, in the one
\* store step of the call, to downVotes only (and symmetrically for an upvote
\* by a user who is in downVotes only): no state in between exists.
C2_AtomicSwitch ==
  [][\A qid \in QIds, u \in Usernames :
       /\ (InUpOnly(qid, u) /\ AddVoteToQuestion(qid, u, "downvote"))
            => InDownOnly(qid, u)'
       /\ (InDownOnly(qid, u) /\ AddVoteToQuestion(qid, u, "upvote"))
            => InUpOnly(qid, u)']_vars

C2_Witness ==
  /\ qv.pc = "done"
  /\ qv.error = Undefined
  /\ qv.type = "downvote"
  /\ includes(qv.preUp, qv.username)
  /\ ~includes(qv.preDown, qv.username)
  /\ InDownOnly(qv.qid, qv.username)
  /\ qv.msg = "Question downvoted successfully"

(***************************************************************************)
(* Polls                                                                   *)
(***************************************************************************)
SavePoll(communityIds) ==
  \/ \E communityId \in communityIds, createdBy \in PollCreators,
        pollDueDate \in DueDates, isClosed \in {"false", "true"} :
       SavePollCreateOption(communityId, createdBy, pollDueDate, isClosed)
  \/ SavePollCreatePoll
  \/ SavePollAddToCommunity

PollVote ==
  \/ \E c \in VoteCallers, pollId \in PollIdArgs, optionId \in OptionIdArgs,
        username \in Voters :
       VoteFindPoll(c, pollId, optionId, username)
  \/ \E c \in VoteCallers : VoteUpdateOption(c) \/ VoteRefetchPoll(c)

Sweep ==
  \/ \E s \in Sweepers : SweepCall(s) \/ SweepFind(s) \/ SweepReturn(s)
  \/ \E s \in Sweepers, p \in DOMAIN polls : SweepUpdate(s, p)

\* polls saved to an existing community, votes, the clock
NextPollVote == SavePoll(CommunityIds) \/ PollVote \/ Tick

SpecPollVote == Init /\ [][NextPollVote]_vars

\* polls saved to an existing or a missing community, sweeps, the clock
NextPollSweep == SavePoll(CommunityIdArgs) \/ Sweep \/ Tick

SpecPollSweep == InitAnyBuild /\ [][NextPollSweep]_vars

VotedInPoll(pollId, username) ==
  \E i \in DOMAIN polls[pollId].options :
    includes(pollOptions[polls[pollId].options[i]].usersVoted, username)

\* C3: for every poll, a username is in usersVoted of at most one of the
\* poll's options, in every state reached by addVoteToPollOption calls.
C3_OneOptionPerUser ==
  \A p \in DOMAIN polls, u \in Voters :
    Cardinality({i \in DOMAIN polls[p].options :
                   includes(pollOptions[polls[p].options[i]].usersVoted, u)}) <= 1

\* this step is the first step of a new addVoteToPollOption call, in slot c
VoteCallStarts(c) == FirstFree(c) /\ calls'.vote = calls.vote + 1

\* C7: a vote on a poll whose stored isClosed is true, or whose pollDueDate is
\* at or before the current time, returns the closed-poll error at once and
\* changes no usersVoted.
C7_ClosedPollRejectsVote ==
  [][\A c \in VoteCallers :
       ( /\ VoteCallStarts(c)
         /\ pv'[c].pollId \in DOMAIN polls
         /\ \/ polls[pv'[c].pollId].isClosed = "true"
            \/ polls[pv'[c].pollId].pollDueDate <= now )
       => ( /\ pv'[c].pc = "done"
            /\ pv'[c].error = "Unable to vote in closed poll"
            /\ pollOptions' = pollOptions )]_vars

C7_Witness ==
  \E c \in VoteCallers :
    /\ pv[c].pc = "done"
    /\ pv[c].error = "Unable to vote in closed poll"
    /\ polls[pv[c].pollId].isClosed # "true"
    /\ polls[pv[c].pollId].pollDueDate = now
    /\ ~VotedInPoll(pv[c].pollId, pv[c].username)

\* C8 as claimed: a vote by a username that is already in usersVoted of any
\* option of the poll returns the already-voted error and changes no usersVoted.
C8_AlreadyVotedRejected ==
  [][\A c \in VoteCallers :
       ( /\ VoteCallStarts(c)
         /\ pv'[c].pollId \in DOMAIN polls
         /\ VotedInPoll(pv'[c].pollId, pv'[c].username) )
       => ( /\ pv'[c].pc = "done"
            /\ pv'[c].error = "User has already voted in this poll"
            /\ pollOptions' = pollOptions )]_vars

\* C8 as amended: a vote by a username that is, when the call reads the poll,
\* already in usersVoted of any option of a poll that is neither closed nor
\* due returns the already-voted error and changes no usersVoted.
C8_AlreadyVotedRejectedWhileOpen ==
  [][\A c \in VoteCallers :
       ( /\ VoteCallStarts(c)
         /\ pv'[c].pollId \in DOMAIN polls
         /\ polls[pv'[c].pollId].isClosed # "true"
         /\ polls[pv'[c].pollId].pollDueDate > now
         /\ VotedInPoll(pv'[c].pollId, pv'[c].username) )
       => ( /\ pv'[c].pc = "done"
            /\ pv'[c].error = "User has already voted in this poll"
            /\ pollOptions' = pollOptions )]_vars

C8_Witness ==
  \E c \in VoteCallers :
    /\ pv[c].pc = "done"
    /\ pv[c].error = "User has already voted in this poll"
    /\ pv[c].optionId \in Range(polls[pv[c].pollId].options)
    /\ ~includes(pollOptions[pv[c].optionId].usersVoted, pv[c].username)
    /\ VotedInPoll(pv[c].pollId, pv[c].username)
    /\ polls[pv[c].pollId].pollDueDate > now

\* C9: a closeExpiredPolls call that ran alone has returned exactly the polls
\* that were due at the call time and not closed, each stored and returned
\* with isClosed = true; polls not yet due are left not closed.
C9_SweepClosesExpired ==
  \A s \in Sweepers :
    (sw[s].pc = "done" /\ sw[s].alone) =>
      LET expired == {p \in 1..sw[s].nPolls :
                        /\ polls[p].pollDueDate <= sw[s].at
                        /\ p \notin sw[s].wasClosed}
      IN /\ DOMAIN sw[s].closedPolls = expired
         /\ \A p \in expired :
              sw[s].closedPolls[p] = "true" /\ polls[p].isClosed = "true"
         /\ \A p \in (1..sw[s].nPolls) \ (expired \cup sw[s].wasClosed) :
              polls[p].isClosed # "true"

\* C10: once a poll's stored isClosed is true it is never false again.
C10_IsClosedMonotonic ==
  [][\A p \in DOMAIN polls : polls[p].isClosed = "true" => polls'[p].isClosed = "true"]_vars

\* the state C10 is about: some stored poll has isClosed = true
C10_SomePollClosed ==
  \E p \in DOMAIN polls : polls[p].isClosed = "true"

(***************************************************************************)
(* Notification fan-out                                                    *)
(***************************************************************************)
Subscribe ==
  \/ \E qid \in QIds, username \in SubscriberArgs : SubscribeFind(qid, username)
  \/ SubscribeUpdate

Block ==
  \/ \E username \in BlockerArgs, type \in NotificationTypes : BlockFind(username, type)
  \/ BlockUpdate

Notify ==
  \/ \E c \in NotifyCallers, oid \in QIdArgs, type \in NotificationTypes :
       NotifyResolve(c, oid, type)
  \/ \E c \in NotifyCallers : NotifyCreate(c) \/ NotifyReturn(c)
  \/ \E c \in NotifyCallers, i \in 1..MaxNotifs :
       NotifyAttachFind(c, i) \/ NotifyAttachPush(c, i)

NextNotify == Subscribe \/ Block \/ Notify

SpecNotify == Init /\ [][NextNotify]_vars

\* the entries of u's inbox that call c created
InboxEntriesFrom(c, u) ==
  {j \in DOMAIN users[u].notifications :
     users[u].notifications[j] \in Range(nf[c].created)}

\* the recipient positions of call c (none before the call has started)
NotifyIndices(c) == IF nf[c].pc = "idle" THEN {} ELSE DOMAIN nf[c].att

\* C4: after a successful notifyUsers call, every distinct resolved user who
\* had not blocked the type has exactly one new inbox entry from that call.
C4_ExactlyOncePerRecipient ==
  \A c \in NotifyCallers :
    (nf[c].pc = "done" /\ nf[c].error = Undefined) =>
      \A u \in Range(nf[c].usernames) :
        (\A i \in DOMAIN nf[c].usernames :
           nf[c].usernames[i] = u => nf[c].att[i] = "pushed")
        => Cardinality(InboxEntriesFrom(c, u)) = 1

\* C14: a notifyUsers call that resolved N usernames creates exactly N new
\* Notification records with pairwise distinct ids, and no Notification id is
\* in the inbox of two different users.
C14_DistinctNotificationIds ==
  /\ [](/\ \A c \in NotifyCallers :
             (nf[c].pc \in {"attach", "done"} /\ nf[c].usernames # <<>>) =>
               /\ Len(nf[c].created) = Len(nf[c].usernames)
               /\ Cardinality(Range(nf[c].created)) = Len(nf[c].usernames)
               /\ Range(nf[c].created) \subseteq DOMAIN notifications
        /\ \A u1, u2 \in DOMAIN users :
             u1 # u2 => Range(users[u1].notifications)
                          \cap Range(users[u2].notifications) = {})
  /\ [][notifications' # notifications =>
          \E c \in NotifyCallers :
            /\ nf[c].pc = "create"
            /\ Len(notifications') = Len(notifications) + 1
            /\ nf'[c].created = Append(nf[c].created, Len(notifications'))
            /\ Len(nf'[c].created) <= Len(nf[c].usernames)
            /\ Len(notifications') \notin Range(nf[c].created)]_vars

\* C5: a recipient who has the type in blockedNotifications when the fan-out
\* reads the user still has a Notification record created, the inbox is left
\* unchanged, and the returned username list still contains the recipient.
C5_BlockedRecipientSkipped ==
  /\ [](\A c \in NotifyCallers : \A i \in NotifyIndices(c) :
          nf[c].att[i] = "skipped" =>
            /\ nf[c].created[i] \in DOMAIN notifications
            /\ notifications[nf[c].created[i]].notificationType = nf[c].type
            /\ \A u \in DOMAIN users :
                 ~includes(users[u].notifications, nf[c].created[i])
            /\ (nf[c].pc = "done" /\ \A j \in DOMAIN nf[c].att : nf[c].att[j] # "error")
                 => includes(nf[c].ret, nf[c].usernames[i]))
  /\ [][\A c \in NotifyCallers : \A i \in NotifyIndices(c) :
          ( /\ nf[c].pc = "attach"
            /\ nf[c].att[i] = "find"
            /\ nf'[c].att[i] # "find"
            /\ nf[c].usernames[i] \in DOMAIN users
            /\ includes(users[nf[c].usernames[i]].blockedNotifications, nf[c].type) )
          => (nf'[c].att[i] = "skipped" /\ users' = users)]_vars

C5_Witness ==
  \E c \in NotifyCallers :
    /\ nf[c].pc = "done"
    /\ nf[c].error = Undefined
    /\ \E i \in NotifyIndices(c) :
         /\ nf[c].att[i] = "skipped"
         /\ nf[c].created[i] \in DOMAIN notifications
         /\ includes(nf[c].ret, nf[c].usernames[i])
         /\ users[nf[c].usernames[i]].notifications = <<>>
         /\ includes(users[nf[c].usernames[i]].blockedNotifications, nf[c].type)

\* C6: whenever a notification id is prepended to a user's inbox, the user's
\* blockedNotifications does not contain the notification's type at that moment.
C6_NoPushWhileBlocked ==
  [][\A c \in NotifyCallers : \A i \in NotifyIndices(c) :
       ( /\ nf[c].pc = "attach"
         /\ nf[c].att[i] = "push"
         /\ nf'[c].att[i] = "pushed" )
       => ~includes(users[nf[c].usernames[i]].blockedNotifications, nf[c].type)]_vars

(***************************************************************************)
(* Recipient resolution and fan-out over every notification type           *)
(***************************************************************************)
AllNotificationTypes ==
  {"Answer", "Comment", "AnswerComment", "Upvote", "NewQuestion", "NewPoll",
   "PollClosed", "NewArticle", "ArticleUpdate", "NewReward"}

\* ids of stored objects, and one id that names nothing
OidArgs == {"q1", "a1", "p1", "ar1", "u1", "x0"}

NextResolve == \E oid \in OidArgs, type \in AllNotificationTypes : Resolve(oid, type)

SpecResolve == InitStore /\ [][NextResolve]_vars

\* the community that lists oid under `field`, if any
ListingCommunities(oid, field) ==
  {c \in DOMAIN communities :
     IF field = "polls"
       THEN \E p \in Range(communities[c].polls) : PollOidOf[p] = oid
       ELSE oid \in Range(communities[c][field])}

StoredPolls(oid) == {p \in DOMAIN polls : PollOidOf[p] = oid}

\* does the source object of a notification of this type exist
SourceExists(oid, type) ==
  CASE type \in {"Answer", "Comment", "Upvote"} -> oid \in DOMAIN questions
    [] type = "AnswerComment" -> oid \in DOMAIN answers
    [] type = "NewQuestion" -> ListingCommunities(oid, "questions") # {}
    [] type = "NewPoll" -> ListingCommunities(oid, "polls") # {}
    [] type \in {"NewArticle", "ArticleUpdate"} -> ListingCommunities(oid, "articles") # {}
    [] type = "PollClosed" -> StoredPolls(oid) # {}
    [] type = "NewReward" -> \E u \in DOMAIN users : UserOidOf[u] = oid

\* the recipient set the notification type stands for
RecipientSet(oid, type) ==
  CASE type = "Answer" ->
         {questions[oid].askedBy} \cup Range(questions[oid].subscribers)
    [] type \in {"Comment", "Upvote"} -> {questions[oid].askedBy}
    [] type = "AnswerComment" -> {answers[oid].ansBy}
    [] type = "NewQuestion" ->
         UNION {Range(communities[c].members) : c \in ListingCommunities(oid, "questions")}
    [] type = "NewPoll" ->
         UNION {Range(communities[c].members) : c \in ListingCommunities(oid, "polls")}
    [] type \in {"NewArticle", "ArticleUpdate"} ->
         UNION {Range(communities[c].members) : c \in ListingCommunities(oid, "articles")}
    [] type = "PollClosed" ->
         UNION {{polls[p].createdBy} \cup
                UNION {Range(pollOptions[o].usersVoted) : o \in Range(polls[p].options)}
                : p \in StoredPolls(oid)}
    [] type = "NewReward" -> {u \in DOMAIN users : UserOidOf[u] = oid}

\* C11: for an existing source object, usersToNotify returns without error a
\* list whose members are exactly the recipient set of the notification type.
C11_ResolvesRecipientSet ==
  (rs.pc = "done" /\ SourceExists(rs.oid, rs.type)) =>
    /\ rs.error = Undefined
    /\ Range(rs.usernames) = RecipientSet(rs.oid, rs.type)

C11_Witness ==
  /\ rs.pc = "done"
  /\ rs.type = "PollClosed"
  /\ SourceExists(rs.oid, rs.type)
  /\ rs.error = Undefined
  /\ Range(rs.usernames) = {"alice", "bob", "carol"}

\* a notifyUsers call by c starts in this step
NotifyCallStarts(c) == nf[c].pc \in {"idle", "done"} /\ nf'[c] # nf[c]

\* C12: a notifyUsers call whose resolved recipient list is empty returns an
\* error, creates no Notification record and modifies no inbox.
C12_EmptyRecipientsFail ==
  [][\A c \in NotifyCallers :
       ( /\ NotifyCallStarts(c)
         /\ SourceExists(nf'[c].oid, nf'[c].type)
         /\ RecipientSet(nf'[c].oid, nf'[c].type) = {} )
       => /\ nf'[c].pc = "done"
          /\ nf'[c].error # Undefined
          /\ nf'[c].created = <<>>
          /\ notifications' = notifications
          /\ users' = users]_vars

C12_Witness ==
  \E c \in NotifyCallers :
    /\ nf[c].pc = "done"
    /\ nf[c].type = "NewQuestion"
    /\ SourceExists(nf[c].oid, nf[c].type)
    /\ RecipientSet(nf[c].oid, nf[c].type) = {}
    /\ nf[c].error # Undefined
    /\ notifications = <<>>
    /\ \A u \in DOMAIN users : users[u].notifications = <<>>

\* C13: a notifyUsers call whose source id is undefined or names no existing
\* object (question, answer, poll, user, or no community listing the object)
\* returns an error, creates no Notification record and modifies no inbox.
C13_MissingObjectFails ==
  [][\A c \in NotifyCallers :
       ( /\ NotifyCallStarts(c)
         /\ (nf'[c].oid = Undefined \/ ~SourceExists(nf'[c].oid, nf'[c].type)) )
       => /\ nf'[c].pc = "done"
          /\ nf'[c].error # Undefined
          /\ nf'[c].created = <<>>
          /\ notifications' = notifications
          /\ users' = users]_vars

C13_Witness ==
  \E c \in NotifyCallers :
    /\ nf[c].pc = "done"
    /\ nf[c].oid # Undefined
    /\ nf[c].type = "NewPoll"
    /\ ~SourceExists(nf[c].oid, nf[c].type)
    /\ nf[c].error # Undefined
    /\ notifications = <<>>
    /\ \A u \in DOMAIN users : users[u].notifications = <<>>

C14_Witness ==
  \E c \in NotifyCallers :
    /\ nf[c].pc = "done"
    /\ nf[c].error = Undefined
    /\ Len(nf[c].usernames) = 2
    /\ nf[c].usernames[1] # nf[c].usernames[2]
    /\ Len(notifications) = 2
    /\ \A i \in 1..2 : users[nf[c].usernames[i]].notifications = <<nf[c].created[i]>>

\* C15: when the inbox attachment fails for one recipient, notifyUsers returns
\* a single error value without per-recipient results, and the Notification
\* records created and the inbox prepends applied for the other recipients
\* stay in the store.
C15_PartialFailureNoRollback ==
  /\ [](\A c \in NotifyCallers :
          (nf[c].pc = "done" /\ \E i \in NotifyIndices(c) : nf[c].att[i] = "error") =>
            /\ nf[c].error = "Error when adding notifications to users"
            /\ nf[c].ret = <<>>
            /\ Range(nf[c].created) \subseteq DOMAIN notifications
            /\ \A i \in NotifyIndices(c) :
                 nf[c].att[i] = "pushed" =>
                   includes(users[nf[c].usernames[i]].notifications, nf[c].created[i]))
  /\ [][\A c \in NotifyCallers :
          (nf[c].pc = "attach" /\ nf'[c].pc = "done") =>
            (notifications' = notifications /\ users' = users)]_vars

C15_Witness ==
  \E c \in NotifyCallers :
    /\ nf[c].pc = "done"
    /\ nf[c].error # Undefined
    /\ nf[c].usernames = <<"alice", "bob", "dave">>
    /\ nf[c].att = <<"pushed", "pushed", "error">>
    /\ Len(notifications) = 3
    /\ users["alice"].notifications = <<nf[c].created[1]>>
    /\ users["bob"].notifications = <<nf[c].created[2]>>

NotifyAny ==
  \/ \E c \in NotifyCallers, oid \in OidArgs \cup {Undefined},
        type \in AllNotificationTypes :
       NotifyResolve(c, oid, type)
  \/ \E c \in NotifyCallers : NotifyCreate(c) \/ NotifyReturn(c)
  \/ \E c \in NotifyCallers, i \in 1..MaxNotifs :
       NotifyAttachFind(c, i) \/ NotifyAttachPush(c, i)

NextFanout == NotifyAny

SpecFanout == InitFanout /\ [][NextFanout]_vars

(***************************************************************************)
(* Challenge progress                                                      *)
(***************************************************************************)
ChallengeUsernameArgs == {"alice", "dave"}

FetchAndIncrement ==
  \/ \E c \in ChallengeCallers, username \in ChallengeUsernameArgs,
        challengeType \in ChallengeTypes :
       FetchFindUser(c, username, challengeType)
  \/ \E c \in ChallengeCallers :
       FetchUserChallenges(c) \/ FetchChallenges(c) \/ FetchReturn(c)
  \/ \E c \in ChallengeCallers, ch \in DOMAIN challenges :
       FetchCreateUserChallenge(c, ch)
  \/ \E c \in ChallengeCallers, k \in DOMAIN userChallenges :
       FetchReward(c, k) \/ FetchUpdate(c, k)

NextChallenge == FetchAndIncrement \/ Tick

SpecChallenge == InitChallenge /\ [][NextChallenge]_vars

amountOf(k) == challenges[userChallenges[k].challenge].actionAmount

\* C16: every stored UserChallenge of a challenge with actionAmount >= 1 has
\* at most actionAmount progress entries, under any interleaving of
\* fetchAndIncrementChallengesByUserAndType calls.
C16_ProgressWithinAmount ==
  \A k \in DOMAIN userChallenges :
    amountOf(k) >= 1 => Len(userChallenges[k].progress) <= amountOf(k)

\* two overlapping calls have both written a record that is now complete
C16_Witness ==
  /\ \A c \in ChallengeCallers : fc[c].pc = "done" /\ fc[c].error = Undefined
  /\ \E k \in DOMAIN userChallenges :
       /\ \A c \in ChallengeCallers : k \in DOMAIN fc[c].toWrite
       /\ Len(userChallenges[k].progress) = amountOf(k)

\* C17: once a UserChallenge's stored progress has actionAmount entries, no
\* step of any call, started later or already running, changes its progress.
C17_CompleteStaysComplete ==
  [][\A k \in DOMAIN userChallenges :
       Len(userChallenges[k].progress) = amountOf(k) =>
         userChallenges'[k].progress = userChallenges[k].progress]_vars

\* the records call c writes (none before the call has started)
FetchKeys(c) == IF fc[c].pc = "idle" THEN {} ELSE DOMAIN fc[c].toWrite

rewardOf(k) == challenges[userChallenges[k].challenge].reward

timesUnlocked(username, title) ==
  Cardinality({i \in DOMAIN unlockedTitles[username] :
                 unlockedTitles[username][i] = title})

\* C18: after a successful call, the reward of every updated record whose new
\* progress has exactly actionAmount entries is in the user's unlockedTitles,
\* once; and a call adds a reward only for such a record.
C18_RewardOnExactCompletion ==
  /\ [](\A c \in ChallengeCallers :
          (fc[c].pc = "done" /\ fc[c].error = Undefined) =>
            \A k \in DOMAIN fc[c].toWrite :
              Len(fc[c].toWrite[k]) = amountOf(k) =>
                timesUnlocked(fc[c].username, rewardOf(k)) = 1)
  /\ [][unlockedTitles' # unlockedTitles =>
          \E c \in ChallengeCallers : \E k \in FetchKeys(c) :
            /\ Len(fc[c].toWrite[k]) = amountOf(k)
            /\ unlockedTitles' =
                 [unlockedTitles EXCEPT ![fc[c].username] = AddToSet(@, rewardOf(k))]]_vars

\* one call completed ch3 and left ch1 one entry short: title3 only
C18_Witness ==
  \E c \in ChallengeCallers :
    /\ fc[c].pc = "done"
    /\ fc[c].error = Undefined
    /\ \E k1, k2 \in DOMAIN fc[c].toWrite :
         /\ Len(fc[c].toWrite[k1]) = amountOf(k1)
         /\ Len(fc[c].toWrite[k2]) < amountOf(k2)
         /\ timesUnlocked(fc[c].username, rewardOf(k1)) = 1
         /\ timesUnlocked(fc[c].username, rewardOf(k2)) = 0

hoursOf(k) == challenges[userChallenges[k].challenge].hoursToComplete

\* the entries of `progress` not older than `hours` hours at time t
withinWindow(progress, hours, t) ==
  IF hours = 0 THEN progress
  ELSE SelectSeq(progress, LAMBDA p : p >= t - hours * TicksPerHour)

\* C19: a call made at time t stores, for every selected record, the prior
\* entries p >= t - hoursToComplete hours in their order followed by t (all
\* prior entries when the challenge is untimed); t is the clock reading of the
\* call's fetch and is the same for every record of the call.
C19_SlidingWindow ==
  [][\A c \in ChallengeCallers :
       /\ (fc[c].pc = "fetch" /\ fc'[c].pc = "challenges") => fc'[c].currentTime = now
       /\ \A k \in FetchKeys(c) :
            (k \in fc[c].toUpdate /\ k \notin fc'[c].toUpdate /\ k \in DOMAIN fc[c].read) =>
              /\ userChallenges'[k].progress =
                   Append(withinWindow(fc[c].read[k], hoursOf(k), fc[c].currentTime),
                          fc[c].currentTime)
              /\ (\A d \in ChallengeCallers \ {c} : fc[d].pc = "idle") =>
                   fc[c].read[k] = userChallenges[k].progress]_vars

\* a call running alone at t = 1 pruned the timed record and kept the untimed
C19_Witness ==
  \E c \in ChallengeCallers :
    /\ fc[c].pc = "done"
    /\ fc[c].error = Undefined
    /\ \A d \in ChallengeCallers \ {c} : fc[d].pc = "idle"
    /\ \E k1, k2 \in DOMAIN fc[c].read :
         /\ hoursOf(k1) # 0
         /\ Len(userChallenges[k1].progress) <= Len(fc[c].read[k1])
         /\ userChallenges[k1].progress[Len(userChallenges[k1].progress)] = fc[c].currentTime
         /\ hoursOf(k2) = 0
         /\ userChallenges[k2].progress = Append(fc[c].read[k2], fc[c].currentTime)

\* The expiry example: the clock reads 0 at t = 100 min, so the entries made
\* at t = 0, 30 and 90 min are -10, -7 and -1.
\* the one call of the example has returned: alice, at t = 100 min, alone
ExampleCallDone(c, ch) ==
  /\ calls.challenge = 1
  /\ fc[c].pc = "done"
  /\ fc[c].error = Undefined
  /\ fc[c].username = "alice"
  /\ fc[c].challengeType = "answer"
  /\ fc[c].currentTime = 0
  /\ DOMAIN challenges = {ch}
  /\ challenges[ch].hoursToComplete = 1
  /\ Len(userChallenges) = 1

\* C20 as stated: with actionAmount = 3 and entries at t = 0, 30 and 90 min the
\* call at t = 100 min prunes the t = 0 entry and keeps the other two.
C20_PrunesOldestOnly ==
  \A c \in ChallengeCallers :
    (ExampleCallDone(c, "ch1") /\ challenges["ch1"].actionAmount = 3) =>
      /\ ~includes(userChallenges[1].progress, -10)
      /\ includes(userChallenges[1].progress, -7)
      /\ includes(userChallenges[1].progress, -1)

\* C20, amended: with actionAmount = 3 the record is complete and the call at
\* t = 100 min leaves its three entries as they are; with actionAmount = 4 the
\* call prunes the entries of t = 0 and t = 30 min, keeps the entry of
\* t = 90 min and appends t = 100 min.
C20_PrunesOlderThanAnHour ==
  \A c \in ChallengeCallers :
    /\ (ExampleCallDone(c, "ch1") /\ challenges["ch1"].actionAmount = 3) =>
         /\ userChallenges[1].progress = <<-10, -7, -1>>
         /\ fc[c].toWrite = << >>
    /\ (ExampleCallDone(c, "ch2") /\ challenges["ch2"].actionAmount = 4) =>
         /\ fc[c].read[1] = <<-10, -7, -1>>
         /\ userChallenges[1].progress = <<-1, 0>>

C20_Witness ==
  \E c \in ChallengeCallers :
    /\ ExampleCallDone(c, "ch2")
    /\ fc[c].read[1] = <<-10, -7, -1>>
    /\ userChallenges[1].progress = <<-1, 0>>

\* the records call c bootstrapped: written without having been fetched
Bootstrapped(c) ==
  IF fc[c].pc = "idle" THEN {} ELSE DOMAIN fc[c].toWrite \ DOMAIN fc[c].read

\* C21: after a successful call the user has a record for every Challenge of
\* the type; a record the call bootstraps is created with empty progress, is
\* stored by the call with exactly one entry, the call time, and is in the
\* returned list.
C21_BootstrapsMissingRecords ==
  /\ [](\A c \in ChallengeCallers :
          (fc[c].pc = "done" /\ fc[c].error = Undefined) =>
            /\ \A ch \in DOMAIN challenges :
                 challenges[ch].challengeType = fc[c].challengeType =>
                   \E k \in DOMAIN userChallenges :
                     /\ userChallenges[k].username = fc[c].username
                     /\ userChallenges[k].challenge = ch
            /\ \A k \in Bootstrapped(c) :
                 /\ fc[c].toWrite[k] = <<fc[c].currentTime>>
                 /\ calls.challenge = 1 =>
                      userChallenges[k].progress = <<fc[c].currentTime>>)
  /\ [][/\ Len(userChallenges') # Len(userChallenges) =>
            /\ Len(userChallenges') = Len(userChallenges) + 1
            /\ userChallenges'[Len(userChallenges')].progress = <<>>
            /\ \E c \in ChallengeCallers :
                 /\ fc[c].pc = "create"
                 /\ Len(userChallenges') \in DOMAIN fc'[c].toWrite
                 /\ userChallenges'[Len(userChallenges')].username = fc[c].username
        /\ \A c \in ChallengeCallers : \A k \in Bootstrapped(c) :
             (k \in fc[c].toUpdate /\ k \notin fc'[c].toUpdate) =>
               userChallenges'[k].progress = <<fc[c].currentTime>>]_vars

\* a call running alone bootstrapped both challenges of the type
C21_Witness ==
  \E c \in ChallengeCallers :
    /\ fc[c].pc = "done"
    /\ fc[c].error = Undefined
    /\ calls.challenge = 1
    /\ Cardinality(Bootstrapped(c)) = 2
    /\ \A k \in Bootstrapped(c) : userChallenges[k].progress = <<fc[c].currentTime>>

\* the calls that have returned successfully for alice and the type "answer"
AnswerCallsDone ==
  {c \in ChallengeCallers :
     /\ fc[c].pc = "done"
     /\ fc[c].error = Undefined
     /\ fc[c].username = "alice"
     /\ fc[c].challengeType = "answer"}

\* C22: alice's untimed record of ch4 (3 actions, one done before) has grown
\* by exactly k entries once the k calls made for her and its type, sequential
\* or overlapping, have all returned successfully.
C22_OneEntryPerCall ==
  ( /\ DOMAIN challenges = {"ch4"}
    /\ \A c \in ChallengeCallers : fc[c].pc \in {"idle", "done"}
    /\ Cardinality(AnswerCallsDone) = calls.challenge
    /\ 1 + calls.challenge <= challenges["ch4"].actionAmount )
  => Len(userChallenges[1].progress) = 1 + calls.challenge

(***************************************************************************)
(* Challenge progress with store operations that can fail                  *)
(***************************************************************************)
FetchFails ==
  \/ \E c \in ChallengeCallers, ch \in DOMAIN challenges : FetchCreateFails(c, ch)
  \/ \E c \in ChallengeCallers, k \in DOMAIN userChallenges : FetchUpdateFails(c, k)

NextChallengeFaults == FetchAndIncrement \/ FetchFails \/ Tick

SpecChallengeFaults == InitChallenge /\ [][NextChallengeFaults]_vars

\* the rewards call c has added: due at its reward step and no longer pending
RewardsAdded(c) ==
  IF fc[c].pc = "idle" \/ fc[c].at # "reward" THEN {}
  ELSE {k \in DOMAIN fc[c].toWrite : Len(fc[c].toWrite[k]) = amountOf(k)} \ fc[c].toReward

\* the records whose progress call c has stored
UpdatesApplied(c) ==
  IF fc[c].pc = "idle" \/ fc[c].at # "reward" THEN {}
  ELSE DOMAIN fc[c].toWrite \ fc[c].toUpdate

\* C23: a call that returned an error has persisted nothing: it created no
\* UserChallenge record, stored no progress array and added no reward.
C23_ErrorPersistsNothing ==
  \A c \in ChallengeCallers :
    (fc[c].pc = "done" /\ fc[c].error # Undefined) =>
      /\ Bootstrapped(c) = {}
      /\ UpdatesApplied(c) = {}
      /\ RewardsAdded(c) = {}

\* a fetchAndIncrementChallengesByUserAndType call by c starts in this step
FetchCallStarts(c) == fc[c].pc \in {"idle", "done"} /\ fc'[c] # fc[c]

\* C24: a call for a username with no User record returns an error and
\* creates or modifies no UserChallenge record, whatever challenges exist.
C24_UnknownUserChangesNothing ==
  [][\A c \in ChallengeCallers :
       (FetchCallStarts(c) /\ fc'[c].username \notin DOMAIN users) =>
         /\ fc'[c].pc = "done"
         /\ fc'[c].error = "User not found"
         /\ userChallenges' = userChallenges
         /\ unlockedTitles' = unlockedTitles]_vars

C24_Witness ==
  \E c \in ChallengeCallers :
    /\ fc[c].pc = "done"
    /\ fc[c].username \notin DOMAIN users
    /\ fc[c].error = "User not found"
    /\ fc[c].toWrite = << >>
    /\ \E ch \in DOMAIN challenges :
         /\ challenges[ch].challengeType = fc[c].challengeType
         /\ \A k \in DOMAIN userChallenges : userChallenges[k].username # fc[c].username

(***************************************************************************)
(* Poll votes: the race of two votes by one user                           *)
(***************************************************************************)
\* C25: two addVoteToPollOption calls by one user on different options of one
\* open poll can both succeed when they overlap (the witness); a call that
\* starts after the user's vote on another option of the poll has been stored,
\* as every call that does not overlap the first does, returns an error and
\* adds nothing.
C25_RaceOnlyWhenOverlapping ==
  [][\A c \in VoteCallers :
       ( /\ VoteCallStarts(c)
         /\ pv'[c].pollId \in DOMAIN polls
         /\ VotedInPoll(pv'[c].pollId, pv'[c].username) )
       => ( /\ pv'[c].pc = "done"
            /\ pv'[c].error # Undefined
            /\ pollOptions' = pollOptions )]_vars

\* The second of two overlapping calls has returned success.  The first call,
\* whose result has been sent, stored the vote on the other option: the only
\* two calls ever started both added a vote, and a call that has added its
\* vote returns success.
C25_Witness ==
  \E c \in VoteCallers :
    /\ calls.vote = 2
    /\ pv[c].pc = "done"
    /\ pv[c].error = Undefined
    /\ \A d \in VoteCallers \ {c} : pv[d].pc = "idle"
    /\ polls[pv[c].pollId].pollDueDate > now
    /\ \E o1, o2 \in Range(polls[pv[c].pollId].options) :
         /\ o1 # o2
         /\ o2 = pv[c].optionId
         /\ includes(pollOptions[o1].usersVoted, pv[c].username)
         /\ includes(pollOptions[o2].usersVoted, pv[c].username)

InNeither(qid, u) ==
  ~includes(questions[qid].upVotes, u) /\ ~includes(questions[qid].downVotes, u)

\* C26: a vote of one type by a user who is in neither list puts the user in
\* that type's list only; a vote of the same type by a user who is in that
\* list only leaves the user in neither list; and a vote by another user
\* changes no membership of the user.  Two consecutive calls of the same type
\* by the user therefore restore the user's membership.
C26_SecondVoteCancels ==
  [][\A qid \in QIds, u \in Usernames :
       /\ (InNeither(qid, u) /\ AddVoteToQuestion(qid, u, "upvote"))
            => InUpOnly(qid, u)'
       /\ (InUpOnly(qid, u) /\ AddVoteToQuestion(qid, u, "upvote"))
            => InNeither(qid, u)'
       /\ (InNeither(qid, u) /\ AddVoteToQuestion(qid, u, "downvote"))
            => InDownOnly(qid, u)'
       /\ (InDownOnly(qid, u) /\ AddVoteToQuestion(qid, u, "downvote"))
            => InNeither(qid, u)'
       /\ \A w \in Usernames \ {u}, q2 \in QIdArgs, t \in VoteTypes :
            AddVoteToQuestion(q2, w, t)
              => /\ includes(questions'[qid].upVotes, u)
                      = includes(questions[qid].upVotes, u)
                 /\ includes(questions'[qid].downVotes, u)
                      = includes(questions[qid].downVotes, u)]_vars

\* The second of two upvotes has returned: the user was in upVotes only when
\* the call read the question and is in neither list now.
C26_Witness ==
  /\ qv.pc = "done"
  /\ qv.error = Undefined
  /\ qv.type = "upvote"
  /\ includes(qv.preUp, qv.username)
  /\ ~includes(qv.preDown, qv.username)
  /\ InNeither(qv.qid, qv.username)
  /\ qv.msg = "Upvote cancelled successfully"

occurrences(arr, x) == Len(SelectSeq(arr, LAMBDA e : e = x))

\* the step is the findOneAndUpdate of call c, on an option that exists
VoteUpdateApplied(c) ==
  /\ pv[c].pc = "update"
  /\ pv'[c].pc = "refetch"

\* C27: the store step of an addVoteToPollOption call that goes on to return
\* the poll leaves the username exactly once in usersVoted of the target
\* option, changes nothing else of that list, and changes no other option;
\* no step of a call changes a stored poll (its isClosed, its options list),
\* and usersVoted of an option changes in no other step.
C27_OnlyTargetOptionGainsVoter ==
  [][/\ \A p \in DOMAIN polls : polls'[p] = polls[p]
     /\ \A c \in VoteCallers :
          VoteUpdateApplied(c) =>
            LET o == pv[c].optionId
                u == pv[c].username
            IN /\ occurrences(pollOptions'[o].usersVoted, u) = 1
               /\ Pull(pollOptions'[o].usersVoted, u) = Pull(pollOptions[o].usersVoted, u)
               /\ \A x \in DOMAIN pollOptions \ {o} : pollOptions'[x] = pollOptions[x]
     /\ (\A c \in VoteCallers : ~VoteUpdateApplied(c))
          => \A x \in DOMAIN pollOptions : pollOptions'[x] = pollOptions[x]]_vars

\* One call has returned the poll while another call by the same user on the
\* same option has applied its update as well: the username was already in
\* the list for one of the two updates, and is in it once.
C27_Witness ==
  \E c, d \in VoteCallers :
    /\ c # d
    /\ pv[c].pc = "done"
    /\ pv[c].error = Undefined
    /\ pv[d].pc = "refetch"
    /\ pv[d].optionId = pv[c].optionId
    /\ pv[d].username = pv[c].username
    /\ pv[d].pollId = pv[c].pollId
    /\ pollOptions[pv[c].optionId].usersVoted = <<pv[c].username>>

(***************************************************************************)
(* updateUserNotifsAsRead and updateNotifAsRead                            *)
(***************************************************************************)
MarkUsernameArgs == {"alice", "bob", "dave"}

setIsRead_unchanged(n) == n

\* { $set: { isRead: true } }
setIsRead(n) == [n EXCEPT !.isRead = TRUE]

\* findUser(username): the user with the inbox populated.  The reads that
\* populate each notification's source change nothing and no notification is
\* ever deleted, so the inbox the call works on is the list read here.  Every
\* callback of the map then runs up to its findOneAndUpdate: one update per
\* inbox entry is under way when the call reaches Promise.all.
MarkFindUser(username) ==
  /\ mr.pc \in {"idle", "done"}
  /\ mr.pc = "done" => \A i \in DOMAIN mr.st : mr.st[i] # "pending"
  /\ calls.mark < MaxMarkCalls
  /\ calls' = [calls EXCEPT !.mark = @ + 1]
  /\ mr' = IF username \notin DOMAIN users
             THEN [pc |-> "done", username |-> username, read |-> <<>>,
                   st |-> <<>>, ret |-> <<>>,
                   error |-> "Error while finding the user"]
             ELSE [pc |-> "update", username |-> username,
                   read |-> users[username].notifications,
                   st |-> [i \in DOMAIN users[username].notifications |-> "pending"],
                   ret |-> <<>>, error |-> Undefined]
  /\ UNCHANGED <<now, strictQuery, questions, users, notifications, polls, pollOptions,
                 communities, qv, pv, sw, sp, nf, bt, sb, answers, rs, challenges,
                 userChallenges, unlockedTitles, fc, tags, tg, sc, toggled, qlist, rk>>

\* updateNotifAsRead of inbox entry i: findOneAndUpdate({_id: nid}).  The
\* updates of one call are applied in any order, and an update that is under
\* way when the call has returned an error is applied all the same.
MarkUpdate(i) ==
  /\ mr.pc \in {"update", "done"}
  /\ i \in DOMAIN mr.st
  /\ mr.st[i] = "pending"
  /\ IF mr.read[i] \in DOMAIN notifications
       THEN /\ notifications' = [notifications EXCEPT
                                   ![mr.read[i]] = setIsRead(@)]
            /\ mr' = [mr EXCEPT !.st[i] = "updated"]
       ELSE /\ mr' = [mr EXCEPT !.st[i] = "failed"]
            /\ UNCHANGED notifications
  /\ UNCHANGED <<now, strictQuery, questions, users, polls, pollOptions, communities,
                 qv, pv, sw, sp, nf, bt, sb, calls, answers, rs, challenges,
                 userChallenges, unlockedTitles, fc, tags, tg, sc, toggled, qlist, rk>>

\* the store rejects the findOneAndUpdate of inbox entry i
MarkUpdateFails(i) ==
  /\ mr.pc \in {"update", "done"}
  /\ i \in DOMAIN mr.st
  /\ mr.st[i] = "pending"
  /\ mr' = [mr EXCEPT !.st[i] = "failed"]
  /\ UNCHANGED <<now, strictQuery, questions, users, notifications, polls, pollOptions,
                 communities, qv, pv, sw, sp, nf, bt, sb, calls, answers, rs,
                 challenges, userChallenges, unlockedTitles, fc, tags, tg, sc, toggled,
                 qlist, rk>>

\* Promise.all settles: fulfilled when every update has returned its
\* notification, rejected as soon as one callback has thrown
MarkReturn ==
  /\ mr.pc = "update"
  /\ IF \E i \in DOMAIN mr.st : mr.st[i] = "failed"
       THEN mr' = [mr EXCEPT !.pc = "done",
                             !.error = "Error while updating notification"]
       ELSE /\ \A i \in DOMAIN mr.st : mr.st[i] = "updated"
            /\ mr' = [mr EXCEPT !.pc = "done", !.ret = mr.read]
  /\ UNCHANGED <<now, strictQuery, questions, users, notifications, polls, pollOptions,
                 communities, qv, pv, sw, sp, nf, bt, sb, calls, answers, rs,
                 challenges, userChallenges, unlockedTitles, fc, tags, tg, sc, toggled,
                 qlist, rk>>

MarkRead ==
  \/ \E username \in MarkUsernameArgs : MarkFindUser(username)
  \/ \E i \in 1..MaxNotifs : MarkUpdate(i)
  \/ MarkReturn

MarkReadFails == \E i \in 1..MaxNotifs : MarkUpdateFails(i)

\* inboxes that earlier fan-outs and mark-as-read calls leave behind
InboxStores ==
  { [isRead |-> <<FALSE, FALSE>>, alice |-> <<2, 1>>, bob |-> <<>>],
    [isRead |-> <<FALSE, FALSE, FALSE>>, alice |-> <<2, 1>>, bob |-> <<3>>],
    [isRead |-> <<TRUE, FALSE>>, alice |-> <<2, 1>>, bob |-> <<>>],
    [isRead |-> <<FALSE>>, alice |-> <<>>, bob |-> <<1>>] }

InitMarkRead ==
  \E store \in InboxStores :
    /\ now = 0
    /\ strictQuery = FALSE
    /\ questions = [q \in QIds |->
                      [askedBy |-> "alice", subscribers |-> <<>>,
                       upVotes |-> <<>>, downVotes |-> <<>>]]
    /\ users = [u \in Usernames |->
                  [notifications |-> IF u = "alice" THEN store.alice
                                     ELSE IF u = "bob" THEN store.bob
                                     ELSE <<>>,
                   blockedNotifications |-> <<>>]]
    /\ notifications = [n \in DOMAIN store.isRead |->
                          [notificationType |-> "Answer",
                           isRead |-> store.isRead[n]]]
    /\ polls = <<>>
    /\ pollOptions = <<>>
    /\ communities = [c \in CommunityIds |->
                        [polls |-> <<>>, members |-> <<>>, questions |-> <<>>,
                         articles |-> <<>>]]
    /\ answers = [a \in AnswerIds |-> [ansBy |-> "bob"]]
    /\ rs = Idle
    /\ challenges = << >>
    /\ userChallenges = <<>>
    /\ unlockedTitles = [u \in Usernames |-> <<>>]
    /\ fc = [c \in ChallengeCallers |-> Idle]
    /\ qv = Idle
    /\ pv = [c \in VoteCallers |-> Idle]
    /\ sw = [s \in Sweepers |-> Idle]
    /\ sp = Idle
    /\ nf = [c \in NotifyCallers |-> Idle]
    /\ bt = Idle
    /\ sb = Idle
    /\ calls = NoCalls
    /\ mr = Idle
    /\ tags = <<>>
    /\ tg = [c \in TagCallers |-> Idle]
    /\ sc = [c \in SubscribeCallers |-> Idle]
    /\ toggled = [u \in SubscriberArgs |-> 0]
    /\ qlist = <<>>
    /\ rk = Idle

\* mark-as-read calls next to a fan-out
NextMarkRead == MarkRead \/ Notify

SpecMarkRead == InitMarkRead /\ [][NextMarkRead]_vars

\* mark-as-read calls whose store operations may fail
NextMarkReadFaults == MarkRead \/ MarkReadFails

SpecMarkReadFaults == InitMarkRead /\ [][NextMarkReadFaults]_vars

\* the inbox of the user the call names, as stored now
MarkInbox == users[mr.username].notifications

\* this step is the successful return of the call
MarkReturnsOk ==
  /\ mr.pc = "update"
  /\ mr'.pc = "done"
  /\ mr'.error = Undefined

\* C28: when updateUserNotifsAsRead returns successfully and no fan-out has
\* put an entry in the user's inbox since the call read it, every notification
\* of the inbox has isRead = true and the returned list has one entry per
\* inbox notification; and a stored notification changes, while calls run,
\* only by an inbox entry of the call getting isRead = true.
C28_AllOfInboxRead ==
  [][/\ (MarkReturnsOk /\ MarkInbox = mr.read) =>
          /\ \A j \in DOMAIN MarkInbox : notifications[MarkInbox[j]].isRead
          /\ Len(mr'.ret) = Len(MarkInbox)
     /\ \A n \in DOMAIN notifications :
          notifications'[n] # notifications[n] =>
            /\ mr.pc # "idle"
            /\ n \in Range(mr.read)
            /\ notifications'[n] = [notifications[n] EXCEPT !.isRead = TRUE]]_vars

\* A call on a two-entry inbox has returned both entries, both are read, and
\* an unread notification of another user's inbox is still unread.
C28_Witness ==
  /\ mr.pc = "done"
  /\ mr.error = Undefined
  /\ MarkInbox = mr.read
  /\ Len(mr.ret) = 2
  /\ \A j \in DOMAIN MarkInbox : notifications[MarkInbox[j]].isRead
  /\ \E n \in DOMAIN notifications \ Range(MarkInbox) : ~notifications[n].isRead

\* an update of the call has failed
MarkFailed == mr.pc # "idle" /\ \E i \in DOMAIN mr.st : mr.st[i] = "failed"

\* C29: when the update of one notification fails the call returns an error,
\* no isRead update is applied to another notification after the failure, and
\* no notification that was marked read becomes unread.
C29_FirstFailureStopsUpdates ==
  [][/\ (mr.pc = "update" /\ mr'.pc = "done" /\ MarkFailed) => mr'.error # Undefined
     /\ MarkFailed =>
          \A n \in DOMAIN notifications :
            notifications'[n].isRead = notifications[n].isRead
     /\ \A n \in DOMAIN notifications :
          notifications[n].isRead => notifications'[n].isRead]_vars

(***************************************************************************)
(* addTag and processTags                                                  *)
(***************************************************************************)
TagNames == {"react", "js"}

\* the tag lists processTags is called with: empty, with and without a
\* repeated name
TagLists == {<<>>, <<"react">>, <<"js", "react">>, <<"react", "react">>}

\* [...new Set(tags.map(tag => tag.name))]: first occurrences, in order
RECURSIVE uniqueTagNames(_)
uniqueTagNames(names) ==
  IF names = <<>> THEN <<>>
  ELSE LET front == uniqueTagNames(SubSeq(names, 1, Len(names) - 1))
           last == names[Len(names)]
       IN IF includes(front, last) THEN front ELSE Append(front, last)

existingTag_none(name) == 0

\* TagModel.findOne({ name }): the _id of the first record of that name, 0
\* for null
existingTag(name) ==
  IF \E i \in DOMAIN tags : tags[i].name = name
    THEN CHOOSE i \in DOMAIN tags :
           /\ tags[i].name = name
           /\ \A j \in 1..(i - 1) : tags[j].name # name
    ELSE 0

\* the Tag collection keeps names unique: a save under a stored name is
\* rejected
nameTaken(name) == \E i \in DOMAIN tags : tags[i].name = name

\* every lookup and save of the call has come back
TagCallSettled(call) ==
  IF call.pc = "idle" THEN TRUE
  ELSE \A i \in DOMAIN call.st : call.st[i] \in {"found", "saved", "failed"}

TagCallFree(c) ==
  /\ tg[c].pc \in {"idle", "done"}
  /\ TagCallSettled(tg[c])
  /\ calls.tag < MaxTagCalls
  /\ calls' = [calls EXCEPT !.tag = @ + 1]

\* addTag(tag), up to the result of its findOne
AddTag(c, name) ==
  /\ TagCallFree(c)
  /\ LET found == existingTag(name)
     IN tg' = [tg EXCEPT ![c] =
                 [pc |-> "run", kind |-> "addTag", names |-> <<name>>,
                  st |-> <<IF found # 0 THEN "found" ELSE "save">>,
                  ids |-> <<found>>, ret |-> <<>>, error |-> Undefined]]
  /\ UNCHANGED <<now, strictQuery, questions, users, notifications, polls, pollOptions,
                 communities, qv, pv, sw, sp, nf, bt, sb, answers, rs, challenges,
                 userChallenges, unlockedTitles, fc, mr, tags, sc, toggled, qlist, rk>>

\* processTags(tags): the callback of every unique name runs up to its findOne
ProcessTags(c, names) ==
  /\ TagCallFree(c)
  /\ LET unique == uniqueTagNames(names)
     IN tg' = [tg EXCEPT ![c] =
                 [pc |-> "run", kind |-> "processTags", names |-> unique,
                  st |-> [i \in DOMAIN unique |-> "find"],
                  ids |-> [i \in DOMAIN unique |-> 0],
                  ret |-> <<>>, error |-> Undefined]]
  /\ UNCHANGED <<now, strictQuery, questions, users, notifications, polls, pollOptions,
                 communities, qv, pv, sw, sp, nf, bt, sb, answers, rs, challenges,
                 userChallenges, unlockedTitles, fc, mr, tags, sc, toggled, qlist, rk>>

\* the findOne of the callback of name i comes back; when it found nothing the
\* callback calls addTag
ProcessTagsFind(c, i) ==
  /\ tg[c].pc \in {"run", "done"}
  /\ i \in DOMAIN tg[c].st
  /\ tg[c].st[i] = "find"
  /\ LET found == existingTag(tg[c].names[i])
     IN tg' = [tg EXCEPT ![c].st[i] = IF found # 0 THEN "found" ELSE "addFind",
                         ![c].ids[i] = found]
  /\ UNCHANGED <<now, strictQuery, questions, users, notifications, polls, pollOptions,
                 communities, qv, pv, sw, sp, nf, bt, sb, calls, answers, rs,
                 challenges, userChallenges, unlockedTitles, fc, mr, tags, sc, toggled,
                 qlist, rk>>

\* the findOne of the addTag that the callback of name i called
ProcessTagsAddTagFind(c, i) ==
  /\ tg[c].pc \in {"run", "done"}
  /\ i \in DOMAIN tg[c].st
  /\ tg[c].st[i] = "addFind"
  /\ LET found == existingTag(tg[c].names[i])
     IN tg' = [tg EXCEPT ![c].st[i] = IF found # 0 THEN "found" ELSE "save",
                         ![c].ids[i] = found]
  /\ UNCHANGED <<now, strictQuery, questions, users, notifications, polls, pollOptions,
                 communities, qv, pv, sw, sp, nf, bt, sb, calls, answers, rs,
                 challenges, userChallenges, unlockedTitles, fc, mr, tags, sc, toggled,
                 qlist, rk>>

\* newTag.save(): the record is created, or the save throws and addTag
\* returns null
AddTagSave(c, i) ==
  /\ tg[c].pc \in {"run", "done"}
  /\ i \in DOMAIN tg[c].st
  /\ tg[c].st[i] = "save"
  /\ IF nameTaken(tg[c].names[i])
       THEN /\ tg' = [tg EXCEPT ![c].st[i] = "failed"]
            /\ UNCHANGED tags
       ELSE /\ tags' = Append(tags, [name |-> tg[c].names[i]])
            /\ tg' = [tg EXCEPT ![c].st[i] = "saved",
                                ![c].ids[i] = Len(tags) + 1]
  /\ UNCHANGED <<now, strictQuery, questions, users, notifications, polls, pollOptions,
                 communities, qv, pv, sw, sp, nf, bt, sb, calls, answers, rs,
                 challenges, userChallenges, unlockedTitles, fc, mr, sc, toggled, qlist,
                 rk>>

\* addTag returns the record or null; processTags returns the records, or []
\* as soon as one callback has thrown
TagReturn(c) ==
  /\ tg[c].pc = "run"
  /\ IF \E i \in DOMAIN tg[c].st : tg[c].st[i] = "failed"
       THEN tg' = [tg EXCEPT ![c].pc = "done",
                             ![c].error = IF tg[c].kind = "addTag" THEN "null"
                                          ELSE "An error occurred while adding tags"]
       ELSE /\ TagCallSettled(tg[c])
            /\ tg' = [tg EXCEPT ![c].pc = "done", ![c].ret = tg[c].ids]
  /\ UNCHANGED <<now, strictQuery, questions, users, notifications, polls, pollOptions,
                 communities, qv, pv, sw, sp, nf, bt, sb, calls, answers, rs,
                 challenges, userChallenges, unlockedTitles, fc, mr, tags, sc, toggled,
                 qlist, rk>>

Tags ==
  \/ \E c \in TagCallers, name \in TagNames : AddTag(c, name)
  \/ \E c \in TagCallers, names \in TagLists : ProcessTags(c, names)
  \/ \E c \in TagCallers, i \in 1..Cardinality(TagNames) :
       \/ ProcessTagsFind(c, i)
       \/ ProcessTagsAddTagFind(c, i)
       \/ AddTagSave(c, i)
  \/ \E c \in TagCallers : TagReturn(c)

NextTags == Tags

SpecTags == Init /\ [][NextTags]_vars

SubscribeFindBy(c, qid, username) ==
  /\ sc[c].pc \in {"idle", "done"}
  /\ c = "b2" => sc["b1"].pc \notin {"idle", "done"}
  /\ calls.toggle < MaxToggleCalls
  /\ calls' = [calls EXCEPT !.toggle = @ + 1]
  /\ IF qid \in DOMAIN questions
       THEN /\ sc' = [sc EXCEPT ![c] =
                        [pc |-> "update", qid |-> qid, username |-> username,
                         pull |-> includes(questions[qid].subscribers, username),
                         error |-> Undefined]]
            /\ UNCHANGED toggled
       ELSE /\ sc' = [sc EXCEPT ![c] =
                        [pc |-> "done", qid |-> qid, username |-> username,
                         pull |-> FALSE, error |-> "Question not found"]]
            /\ UNCHANGED toggled
  /\ UNCHANGED <<now, strictQuery, questions, users, notifications, polls, pollOptions,
                 communities, qv, pv, sw, sp, nf, bt, sb, answers, rs, challenges,
                 userChallenges, unlockedTitles, fc, mr, tags, tg, qlist, rk>>

\* findOneAndUpdate({_id: qid}, operation): $pull or $push as chosen
SubscribeUpdateBy(c) ==
  /\ sc[c].pc = "update"
  /\ questions' = [questions EXCEPT ![sc[c].qid].subscribers =
                     IF sc[c].pull THEN Pull(@, sc[c].username)
                                   ELSE Append(@, sc[c].username)]
  /\ sc' = [sc EXCEPT ![c].pc = "done"]
  /\ toggled' = [toggled EXCEPT ![sc[c].username] = @ + 1]
  /\ UNCHANGED <<now, strictQuery, users, notifications, polls, pollOptions,
                 communities, qv, pv, sw, sp, nf, bt, sb, calls, answers, rs,
                 challenges, userChallenges, unlockedTitles, fc, mr, tags, tg, qlist,
                 rk>>

SubscribeRace ==
  \/ \E c \in SubscribeCallers, qid \in QIdArgs, username \in SubscriberArgs :
       SubscribeFindBy(c, qid, username)
  \/ \E c \in SubscribeCallers : SubscribeUpdateBy(c)

NextSubscribe == SubscribeRace

SpecSubscribe == Init /\ [][NextSubscribe]_vars

\* a subscribe call of u is between its read and its write
TogglePending(u) ==
  \E c \in SubscribeCallers : sc[c].pc = "update" /\ sc[c].username = u

\* C31: in every state reached by addSubscriberToQuestion calls on one
\* question, in any interleaving, each username is in subscribers at most
\* once, and when no call of a username is under way the username is a
\* subscriber exactly when an odd number of its calls have completed.
C31_ToggleParity ==
  \A qid \in QIds, u \in SubscriberArgs :
    /\ occurrences(questions[qid].subscribers, u) <= 1
    /\ ~TogglePending(u) =>
         (includes(questions[qid].subscribers, u) <=> toggled[u] % 2 = 1)

(***************************************************************************)
(* Ranking: sortQuestionsByNewest, ByUnanswered, ByActive, ByMostViews     *)
(*                                                                         *)
(* A question of the array is [id, askDateTime, answers, views]: answers   *)
(* is the sequence of the ansDateTime of its answers, views the number of  *)
(* its viewers.  Array.prototype.sort is the sort of the engine the server *)
(* runs on (V8): for an array shorter than 64 elements, the first run is   *)
(* found, reversed when it is strictly descending, and the rest is put in  *)
(* place by binary insertion.                                              *)
(***************************************************************************)
OrderTypes == {"newest", "unanswered", "active", "mostViewed"}

\* mp.get(id) after getMostRecentAnswerTime: <<>> when the question has no
\* answer, else <<the latest ansDateTime>>
RECURSIVE getMostRecentAnswerTime(_)
getMostRecentAnswerTime(ansTimes) ==
  IF ansTimes = <<>> THEN <<>>
  ELSE LET rest == getMostRecentAnswerTime(SubSeq(ansTimes, 1, Len(ansTimes) - 1))
           last == ansTimes[Len(ansTimes)]
       IN IF rest = <<>> \/ rest[1] < last THEN <<last>> ELSE rest

\* the comparator of sortQuestionsByNewest
compareNewest(a, b) ==
  IF a.askDateTime > b.askDateTime THEN -1
  ELSE IF a.askDateTime < b.askDateTime THEN 1
  ELSE 0

\* the two early returns with their results exchanged
compareActive_unansweredFirst(a, b) ==
  LET adate == getMostRecentAnswerTime(a.answers)
      bdate == getMostRecentAnswerTime(b.answers)
  IN IF adate = <<>> THEN -1
     ELSE IF bdate = <<>> THEN 1
     ELSE IF adate[1] > bdate[1] THEN -1
     ELSE IF adate[1] < bdate[1] THEN 1
     ELSE 0

\* the comparator of sortQuestionsByActive
compareActive(a, b) ==
  LET adate == getMostRecentAnswerTime(a.answers)
      bdate == getMostRecentAnswerTime(b.answers)
  IN IF adate = <<>> THEN 1
     ELSE IF bdate = <<>> THEN -1
     ELSE IF adate[1] > bdate[1] THEN -1
     ELSE IF adate[1] < bdate[1] THEN 1
     ELSE 0

\* the comparator of sortQuestionsByMostViews
compareViews(a, b) == b.views - a.views

compare(by, a, b) ==
  IF by = "newest" THEN compareNewest(a, b)
  ELSE IF by = "active" THEN compareActive(a, b)
  ELSE compareViews(a, b)

reverse(arr) == [i \in DOMAIN arr |-> arr[Len(arr) + 1 - i]]

\* CountAndMakeRun: the length of the run that starts the array
countRun(arr, by) ==
  IF Len(arr) < 2 THEN Len(arr)
  ELSE LET descending == compare(by, arr[2], arr[1]) < 0
           continues(i) == IF descending
                             THEN compare(by, arr[i], arr[i - 1]) < 0
                             ELSE compare(by, arr[i], arr[i - 1]) >= 0
       IN CHOOSE k \in 2..Len(arr) :
            /\ \A i \in 3..k : continues(i)
            /\ k = Len(arr) \/ ~continues(k + 1)

makeRun(arr, by) ==
  IF Len(arr) < 2 THEN arr
  ELSE LET k == countRun(arr, by)
       IN IF compare(by, arr[2], arr[1]) < 0
            THEN reverse(SubSeq(arr, 1, k)) \o SubSeq(arr, k + 1, Len(arr))
            ELSE arr

\* the binary search of BinaryInsertionSort: where the pivot goes among the
\* elements at left+1 .. right of the sorted prefix (left, right count the
\* elements before the position)
RECURSIVE insertionPoint(_, _, _, _, _)
insertionPoint(arr, by, pivot, left, right) ==
  IF left >= right THEN left
  ELSE LET mid == left + ((right - left) \div 2)
       IN IF compare(by, pivot, arr[mid + 1]) < 0
            THEN insertionPoint(arr, by, pivot, left, mid)
            ELSE insertionPoint(arr, by, pivot, mid + 1, right)

\* BinaryInsertionSort: the elements from position start on are inserted,
\* one after another, in the sorted prefix before them
RECURSIVE binaryInsertionSort(_, _, _)
binaryInsertionSort(arr, by, start) ==
  IF start > Len(arr) THEN arr
  ELSE LET pivot == arr[start]
           at == insertionPoint(arr, by, pivot, 0, start - 1)
           placed == SubSeq(arr, 1, at) \o <<pivot>>
                       \o SubSeq(arr, at + 1, start - 1)
                       \o SubSeq(arr, start + 1, Len(arr))
       IN binaryInsertionSort(placed, by, start + 1)

\* arr.sort(comparator)
sort(arr, by) ==
  IF Len(arr) < 2 THEN arr
  ELSE binaryInsertionSort(makeRun(arr, by), by, countRun(arr, by) + 1)

\* the array after the call: every order sorts the array it is given in place
sortedInPlace(arr, order) ==
  IF order = "active" THEN sort(sort(arr, "newest"), "active")
  ELSE IF order = "mostViewed" THEN sort(sort(arr, "newest"), "mostViewed")
  ELSE sort(arr, "newest")

\* the sequence the call returns
ranked(arr, order) ==
  IF order = "unanswered"
    THEN SelectSeq(sortedInPlace(arr, order), LAMBDA q : Len(q.answers) = 0)
    ELSE sortedInPlace(arr, order)

\* sort returns the array it sorted; filter returns a new array
returnsItsInput(order) == order # "unanswered"

\* one call of a sort function on the array
Rank(order) ==
  /\ rk.pc = "idle"
  /\ rk' = [pc |-> "done", order |-> order, given |-> qlist,
            out |-> ranked(qlist, order), same |-> returnsItsInput(order)]
  /\ qlist' = sortedInPlace(qlist, order)
  /\ UNCHANGED <<now, strictQuery, questions, users, notifications, polls,
                 pollOptions, communities, qv, pv, sw, sp, nf, bt, sb, calls,
                 answers, rs, challenges, userChallenges, unlockedTitles, fc,
                 mr, tags, tg, sc, toggled>>

AskTimes == 1..3
AnswerTimeLists == {<<>>, <<1>>, <<2, 1>>}
ViewCounts == {0, 1}

\* the fields of a question that the sort functions read
QuestionFields ==
  [askDateTime : AskTimes, answers : AnswerTimeLists, views : ViewCounts]

\* the array of the questions with these fields, _id = position in the array
questionArray(fields) ==
  [i \in DOMAIN fields |->
     [id |-> i, askDateTime |-> fields[i].askDateTime,
      answers |-> fields[i].answers, views |-> fields[i].views]]

\* an array of up to MaxRankLen questions is handed to a sort function
InitRank ==
  \E n \in 0..MaxRankLen : \E fields \in [1..n -> QuestionFields] :
    /\ now = 0
    /\ strictQuery = FALSE
    /\ questions = [q \in QIds |->
                      [askedBy |-> "alice", subscribers |-> <<>>,
                       upVotes |-> <<>>, downVotes |-> <<>>]]
    /\ users = [u \in Usernames |->
                  [notifications |-> <<>>, blockedNotifications |-> <<>>]]
    /\ notifications = <<>>
    /\ polls = <<>>
    /\ pollOptions = <<>>
    /\ communities = [c \in CommunityIds |->
                        [polls |-> <<>>, members |-> <<>>, questions |-> <<>>,
                         articles |-> <<>>]]
    /\ answers = [a \in AnswerIds |-> [ansBy |-> "bob"]]
    /\ rs = Idle
    /\ challenges = << >>
    /\ userChallenges = <<>>
    /\ unlockedTitles = [u \in Usernames |-> <<>>]
    /\ fc = [c \in ChallengeCallers |-> Idle]
    /\ qv = Idle
    /\ pv = [c \in VoteCallers |-> Idle]
    /\ sw = [s \in Sweepers |-> Idle]
    /\ sp = Idle
    /\ nf = [c \in NotifyCallers |-> Idle]
    /\ bt = Idle
    /\ sb = Idle
    /\ calls = NoCalls
    /\ mr = Idle
    /\ tags = <<>>
    /\ tg = [c \in TagCallers |-> Idle]
    /\ sc = [c \in SubscribeCallers |-> Idle]
    /\ toggled = [u \in SubscriberArgs |-> 0]
    /\ qlist = questionArray(fields)
    /\ rk = Idle

NextRank == \E order \in OrderTypes : Rank(order)

SpecRank == InitRank /\ [][NextRank]_vars

\* the latest answer time of a question of the array, 0 when it has no answer
\* (every answer time is positive)
latestAnswerTime(q) ==
  IF q.answers = <<>> THEN 0
  ELSE CHOOSE t \in Range(q.answers) : \A t2 \in Range(q.answers) : t2 <= t

\* C32: sortQuestionsByActive returns a permutation of its input in which
\* every question with an answer precedes every question with none, answered
\* questions are in descending order of their latest answer time, and
\* questions that tie on it (the unanswered ones among them) are in
\* descending order of askDateTime.
C32_ActiveOrder ==
  (rk.pc = "done" /\ rk.order = "active") =>
    /\ Len(rk.out) = Len(rk.given)
    /\ Range(rk.out) = Range(rk.given)
    /\ \A i, j \in DOMAIN rk.out :
         i < j =>
           /\ latestAnswerTime(rk.out[i]) >= latestAnswerTime(rk.out[j])
           /\ latestAnswerTime(rk.out[i]) = latestAnswerTime(rk.out[j])
                => rk.out[i].askDateTime >= rk.out[j].askDateTime

\* Three questions asked at T1 < T2 < T3 were given oldest first: the one
\* asked last has no answer and is returned last, the two answered ones are
\* returned by latest answer time.
C32_Witness ==
  /\ rk.pc = "done"
  /\ rk.order = "active"
  /\ Len(rk.given) = 3
  /\ rk.given[1].askDateTime < rk.given[2].askDateTime
  /\ rk.given[2].askDateTime < rk.given[3].askDateTime
  /\ rk.given[3].answers = <<>>
  /\ latestAnswerTime(rk.given[1]) = 1
  /\ latestAnswerTime(rk.given[2]) = 2
  /\ rk.out = <<rk.given[2], rk.given[1], rk.given[3]>>

\* C33: after a call of a sort function, for each of the four orders, the
\* array that was passed holds the same questions in the same order as
\* before the call, and the sequence returned is not that array.
C33_InputNotMutated ==
  rk.pc = "done" => (qlist = rk.given /\ ~rk.same)

(***************************************************************************)
(* notifyUsers with store operations that fail                             *)
(***************************************************************************)
\* NotificationModel.create rejects: saveNotification returns { error }
NotifyCreateFails(c) ==
  /\ nf[c].pc = "create"
  /\ nf' = [nf EXCEPT ![c] = notifySaved(nf[c], 0)]
  /\ UNCHANGED <<now, strictQuery, questions, users, notifications, polls,
                 pollOptions, communities, qv, pv, sw, sp, bt, sb, calls,
                 answers, rs, challenges, userChallenges, unlockedTitles, fc,
                 mr, tags, tg, sc, toggled, qlist, rk>>

\* the findOne or the findOneAndUpdate of addNotificationToUser rejects: it
\* returns { error }
NotifyAttachFails(c, i) ==
  /\ nf[c].pc = "attach"
  /\ i \in DOMAIN nf[c].att
  /\ nf[c].att[i] \in {"find", "push"}
  /\ nf' = [nf EXCEPT ![c].att[i] = "error"]
  /\ UNCHANGED <<now, strictQuery, questions, users, notifications, polls,
                 pollOptions, communities, qv, pv, sw, sp, bt, sb, calls,
                 answers, rs, challenges, userChallenges, unlockedTitles, fc,
                 mr, tags, tg, sc, toggled, qlist, rk>>

NotifyFails ==
  \/ \E c \in NotifyCallers : NotifyCreateFails(c)
  \/ \E c \in NotifyCallers, i \in 1..MaxNotifs : NotifyAttachFails(c, i)

NextFanoutFaults == NotifyAny \/ NotifyFails

SpecFanoutFaults == InitFanout /\ [][NextFanoutFaults]_vars

\* the steps a call may take from one stage to the next: trigger to the
\* creations (or to an error when no recipient is resolved), creations to the
\* attachments (or to an error), attachments to the return
NotifyStageOrder ==
  {<<"idle", "create">>, <<"idle", "done">>, <<"done", "create">>,
   <<"create", "attach">>, <<"create", "done">>, <<"attach", "done">>}

\* C35: a notifyUsers call goes through its stages in order; an inbox changes
\* only while a call is attaching, which it is only when every one of its N
\* recipients has a created Notification record; and a call in which a
\* creation failed returns without having modified an inbox.
C35_CreateAllBeforeDeliver ==
  [][\A c \in NotifyCallers :
       /\ nf'[c].pc # nf[c].pc => <<nf[c].pc, nf'[c].pc>> \in NotifyStageOrder
       /\ users' # users =>
            /\ nf[c].pc = "attach"
            /\ Len(nf[c].created) = Len(nf[c].usernames)
            /\ \A i \in DOMAIN nf[c].created : nf[c].created[i] \in DOMAIN notifications
       /\ (nf[c].pc = "create" /\ nf'[c].pc = "done") =>
            /\ nf'[c].error # Undefined
            /\ users' = users
            /\ \A i \in DOMAIN nf'[c].att : nf'[c].att[i] # "pushed"]_vars

\* A call that resolved two recipients has returned an error after one of its
\* two creations failed and the other succeeded; no attachment was started.
C35_Witness ==
  \E c \in NotifyCallers :
    /\ nf[c].pc = "done"
    /\ nf[c].error # Undefined
    /\ Len(nf[c].usernames) = 2
    /\ Len(nf[c].created) = 2
    /\ \E i, j \in DOMAIN nf[c].created :
         nf[c].created[i] = 0 /\ nf[c].created[j] \in DOMAIN notifications
    /\ nf[c].att = <<>>
    /\ \A u \in DOMAIN users : users[u].notifications = <<>>

(***************************************************************************)
(* Two notifyUsers calls that overlap                                      *)
(***************************************************************************)
FanoutPair == {"n1", "n2"}

\* a call notifyUsers("q1", Comment notification) that has resolved its
\* recipient, the asker of q1, and has not created its record yet
CommentCallInFlight ==
  [pc |-> "create", oid |-> "q1", type |-> "Comment",
   usernames |-> questionAskerToNotify("q1"), created |-> <<>>, att |-> <<>>,
   ret |-> <<>>, error |-> Undefined]

\* alice's inbox holds one or two earlier notifications; a second call is
\* started while the first is in flight, or after it
InitFanoutPair ==
  \E inbox \in {<<1>>, <<2, 1>>}, subscribers \in {<<>>, <<"bob">>} :
    /\ now = 0
    /\ strictQuery = FALSE
    /\ questions = [q \in QIds |->
                      [askedBy |-> "alice", subscribers |-> subscribers,
                       upVotes |-> <<>>, downVotes |-> <<>>]]
    /\ users = [u \in Usernames |->
                  [notifications |-> IF u = "alice" THEN inbox ELSE <<>>,
                   blockedNotifications |-> <<>>]]
    /\ notifications = [n \in DOMAIN inbox |->
                          [notificationType |-> "Answer", isRead |-> FALSE]]
    /\ polls = <<>>
    /\ pollOptions = <<>>
    /\ communities = [c \in CommunityIds |->
                        [polls |-> <<>>, members |-> <<>>, questions |-> <<>>,
                         articles |-> <<>>]]
    /\ answers = [a \in AnswerIds |-> [ansBy |-> "bob"]]
    /\ rs = Idle
    /\ challenges = << >>
    /\ userChallenges = <<>>
    /\ unlockedTitles = [u \in Usernames |-> <<>>]
    /\ fc = [c \in ChallengeCallers |-> Idle]
    /\ qv = Idle
    /\ pv = [c \in VoteCallers |-> Idle]
    /\ sw = [s \in Sweepers |-> Idle]
    /\ sp = Idle
    /\ nf = [c \in FanoutPair |->
                IF c = "n2" THEN CommentCallInFlight ELSE Idle]
    /\ bt = Idle
    /\ sb = Idle
    /\ calls = NoCalls
    /\ mr = Idle
    /\ tags = <<>>
    /\ tg = [c \in TagCallers |-> Idle]
    /\ sc = [c \in SubscribeCallers |-> Idle]
    /\ toggled = [u \in SubscriberArgs |-> 0]
    /\ qlist = <<>>
    /\ rk = Idle

NotifyPair ==
  \/ \E c \in FanoutPair, oid \in QIdArgs, type \in NotificationTypes :
       NotifyResolve(c, oid, type)
  \/ \E c \in FanoutPair : NotifyCreate(c) \/ NotifyReturn(c)
  \/ \E c \in FanoutPair, i \in 1..MaxNotifs :
       NotifyAttachFind(c, i) \/ NotifyAttachPush(c, i)

NextFanoutPair == NotifyPair \/ Block

SpecFanoutPair == InitFanoutPair /\ [][NextFanoutPair]_vars

\* the recipient positions of call c of the pair whose push has been applied
PushedBy(c) ==
  IF nf[c].pc = "idle" THEN {}
  ELSE {i \in DOMAIN nf[c].att : nf[c].att[i] = "pushed"}

\* C36: with two notifyUsers calls that overlap, every notification a call has
\* pushed to a user is in that user's inbox exactly once, and an inbox changes
\* only by one new id being put in front of the entries it had, which stay
\* in their order: nothing of one call is lost to the other.
C36_ConcurrentPushesKept ==
  /\ [](\A c \in FanoutPair : \A i \in PushedBy(c) :
          occurrences(users[nf[c].usernames[i]].notifications,
                      nf[c].created[i]) = 1)
  /\ [][\A u \in DOMAIN users :
          users'[u].notifications # users[u].notifications =>
            \E c \in FanoutPair : \E i \in PushedBy(c)' \ PushedBy(c) :
              /\ nf[c].usernames[i] = u
              /\ ~includes(users[u].notifications, nf[c].created[i])
              /\ users'[u].notifications =
                   <<nf[c].created[i]>> \o users[u].notifications]_vars

\* Both calls have returned their recipients, each resolved alice, and the
\* call that was started second created its record first: alice's inbox holds
\* the two new ids in front of the two entries it had.
C36_Witness ==
  /\ \A c \in FanoutPair :
       /\ nf[c].pc = "done"
       /\ nf[c].error = Undefined
       /\ includes(nf[c].usernames, "alice")
       /\ Len(nf[c].created) = 1
  /\ nf["n1"].created[1] < nf["n2"].created[1]
  /\ users["alice"].notifications =
       <<nf["n2"].created[1], nf["n1"].created[1], 2, 1>>

(***************************************************************************)
(* Votes interleaved with sweeps                                           *)
(***************************************************************************)
\* polls saved, addVoteToPollOption calls, closeExpiredPolls calls, the clock
NextPollVoteSweep == SavePoll(CommunityIds) \/ PollVote \/ Sweep \/ Tick

SpecPollVoteSweep == InitAnyBuild /\ [][NextPollVoteSweep]_vars

\* C37: once a poll's stored isClosed is true, no step changes usersVoted of
\* any of its options, whatever votes and sweeps are in flight.
C37_NoVoteAfterClosed ==
  [][\A p \in DOMAIN polls :
       polls[p].isClosed = "true" =>
         \A i \in DOMAIN polls[p].options :
           pollOptions'[polls[p].options[i]].usersVoted =
             pollOptions[polls[p].options[i]].usersVoted]_vars

\* the case C37 is about: a vote call passed its closed check, and the poll it
\* votes in is stored closed before the call's $addToSet is applied
C37_ClosedUnderPendingVote ==
  \E c \in VoteCallers :
    IF pv[c].pc = "update"
      THEN polls[pv[c].pollId].isClosed = "true"
      ELSE FALSE

\* a vote call passed its closed check and a sweep then handled its poll
C37_SweptUnderPendingVote ==
  \E c \in VoteCallers, s \in Sweepers :
    IF pv[c].pc = "update" /\ sw[s].pc \in {"update", "done"}
      THEN pv[c].pollId \in DOMAIN sw[s].closedPolls
      ELSE FALSE

(***************************************************************************)
(* Votes with two polls in the store                                       *)
(***************************************************************************)
\* usersVoted of the two options of a poll that earlier calls left behind
VotedLists == {<<<<>>, <<>>>>, <<<<"bob">>, <<>>>>, <<<<>>, <<"carol">>>>}

RECURSIVE Flatten(_)
\* the lists of a list of lists, one after the other
Flatten(lists) ==
  IF lists = <<>> THEN <<>> ELSE Head(lists) \o Flatten(Tail(lists))

\* polls saved earlier, each with two options of its own: `voted` gives the
\* usersVoted of the options, poll by poll
InitPollStore(strict, voted) ==
  /\ now = 0
  /\ strictQuery = strict
  /\ questions = [q \in QIds |->
                    [askedBy |-> "alice", subscribers |-> <<>>,
                     upVotes |-> <<>>, downVotes |-> <<>>]]
  /\ users = [u \in Usernames |->
                [notifications |-> <<>>, blockedNotifications |-> <<>>]]
  /\ notifications = <<>>
  /\ polls = [p \in DOMAIN voted |->
                [options |-> [i \in DOMAIN OptionTexts |->
                                (p - 1) * Len(OptionTexts) + i],
                 createdBy |-> "alice", pollDueDate |-> MaxTime,
                 isClosed |-> Undefined]]
  /\ pollOptions = [o \in DOMAIN Flatten(voted) |->
                      [usersVoted |-> Flatten(voted)[o]]]
  /\ communities = [c \in CommunityIds |->
                      [polls |-> [p \in DOMAIN voted |-> p],
                       members |-> <<>>, questions |-> <<>>,
                       articles |-> <<>>]]
  /\ answers = [a \in AnswerIds |-> [ansBy |-> "bob"]]
  /\ rs = Idle
  /\ challenges = << >>
  /\ userChallenges = <<>>
  /\ unlockedTitles = [u \in Usernames |-> <<>>]
  /\ fc = [c \in ChallengeCallers |-> Idle]
  /\ qv = Idle
  /\ pv = [c \in VoteCallers |-> Idle]
  /\ sw = [s \in Sweepers |-> Idle]
  /\ sp = Idle
  /\ nf = [c \in NotifyCallers |-> Idle]
  /\ bt = Idle
  /\ sb = Idle
  /\ calls = NoCalls
  /\ mr = Idle
  /\ tags = <<>>
  /\ tg = [c \in TagCallers |-> Idle]
  /\ sc = [c \in SubscribeCallers |-> Idle]
  /\ toggled = [u \in SubscriberArgs |-> 0]
  /\ qlist = <<>>
  /\ rk = Idle

\* two polls saved earlier
InitTwoPolls ==
  \E first \in VotedLists, second \in VotedLists :
    InitPollStore(FALSE, <<first, second>>)

\* addVoteToPollOption with the id of any stored poll or of none, and the id
\* of any stored option or of none
PollVoteAcross ==
  \/ \E c \in VoteCallers, pollId \in 1..(Len(polls) + 1),
        optionId \in 1..(Len(pollOptions) + 1), username \in Voters :
       VoteFindPoll(c, pollId, optionId, username)
  \/ \E c \in VoteCallers : VoteUpdateOption(c) \/ VoteRefetchPoll(c)

NextTwoPolls == PollVoteAcross \/ Tick

SpecTwoPolls == InitTwoPolls /\ [][NextTwoPolls]_vars

\* the option belongs to the poll
listedIn(pollId, optionId) ==
  \E i \in DOMAIN polls[pollId].options : polls[pollId].options[i] = optionId

\* C38: the store step of an addVoteToPollOption call whose option id is not
\* listed in the options of its poll changes no usersVoted and ends the call
\* with an error; usersVoted of an option changes only in the store step of a
\* call that names a poll listing that option.
C38_OnlyOptionsOfThePoll ==
  [][/\ \A c \in VoteCallers :
          IF pv[c].pc = "update" /\ pv'[c].pc # "update"
            THEN listedIn(pv[c].pollId, pv[c].optionId)
                   \/ (/\ pollOptions' = pollOptions
                       /\ pv'[c].pc = "done"
                       /\ pv'[c].error # Undefined)
            ELSE TRUE
     /\ \A o \in DOMAIN pollOptions :
          pollOptions'[o] # pollOptions[o] =>
            \E c \in VoteCallers :
              IF pv[c].pc = "update" /\ pv'[c].pc # "update"
                THEN pv[c].optionId = o /\ listedIn(pv[c].pollId, o)
                ELSE FALSE]_vars

\* C39: the store holds at most one UserChallenge record for a username and
\* a challenge, in every state reached by fetchAndIncrement calls.
C39_OneRecordPerUserAndChallenge ==
  \A j, k \in DOMAIN userChallenges :
    ( /\ userChallenges[j].username = userChallenges[k].username
      /\ userChallenges[j].challenge = userChallenges[k].challenge )
    => j = k

(***************************************************************************)
(* Two closeExpiredPolls calls that can overlap                            *)
(***************************************************************************)
SweepPair == {"s1", "s2"}

InitSweepPair ==
  \E strict \in BOOLEAN :
    /\ now = 0
    /\ strictQuery = strict
    /\ questions = [q \in QIds |->
                      [askedBy |-> "alice", subscribers |-> <<>>,
                       upVotes |-> <<>>, downVotes |-> <<>>]]
    /\ users = [u \in Usernames |->
                  [notifications |-> <<>>, blockedNotifications |-> <<>>]]
    /\ notifications = <<>>
    /\ polls = <<>>
    /\ pollOptions = <<>>
    /\ communities = [c \in CommunityIds |->
                        [polls |-> <<>>, members |-> <<>>, questions |-> <<>>,
                         articles |-> <<>>]]
    /\ answers = [a \in AnswerIds |-> [ansBy |-> "bob"]]
    /\ rs = Idle
    /\ challenges = << >>
    /\ userChallenges = <<>>
    /\ unlockedTitles = [u \in Usernames |-> <<>>]
    /\ fc = [c \in ChallengeCallers |-> Idle]
    /\ qv = Idle
    /\ pv = [c \in VoteCallers |-> Idle]
    /\ sw = [s \in SweepPair |-> Idle]
    /\ sp = Idle
    /\ nf = [c \in NotifyCallers |-> Idle]
    /\ bt = Idle
    /\ sb = Idle
    /\ calls = NoCalls
    /\ mr = Idle
    /\ tags = <<>>
    /\ tg = [c \in TagCallers |-> Idle]
    /\ sc = [c \in SubscribeCallers |-> Idle]
    /\ toggled = [u \in SubscriberArgs |-> 0]
    /\ qlist = <<>>
    /\ rk = Idle

SweepByPair ==
  \/ \E s \in SweepPair : SweepCall(s) \/ SweepFind(s) \/ SweepReturn(s)
  \/ \E s \in SweepPair, p \in DOMAIN polls : SweepUpdate(s, p)

NextSweepPair == SavePoll(CommunityIds) \/ SweepByPair \/ Tick

SpecSweepPair == InitSweepPair /\ [][NextSweepPair]_vars

\* the polls that the call of sweeper s has returned
ReturnedBy(s) ==
  IF sw[s].pc = "done" /\ sw[s].error = Undefined
    THEN DOMAIN sw[s].closedPolls
    ELSE {}

C40_OverlappingSweepsReturnSamePoll ==
  /\ ReturnedBy("s1") \cap ReturnedBy("s2") # {}
  /\ ~sw["s1"].alone
  /\ ~sw["s2"].alone

(***************************************************************************)
(* Store operations that fail, for every entry point                       *)
(***************************************************************************)
\* the message of the error a rejected store operation carries
StoreError == "store operation failed"

\* addVoteToPollOption: the first findById rejects; the catch returns the error
VoteFindPollFails(c, pollId, optionId, username) ==
  /\ FirstFree(c)
  /\ calls.vote < MaxVoteCalls
  /\ calls' = [calls EXCEPT !.vote = @ + 1]
  /\ VoteReturns(c, [pc |-> "update", pollId |-> pollId, optionId |-> optionId,
                     username |-> username, error |-> Undefined],
                 "Error when adding vote to poll option")
  /\ UNCHANGED <<now, strictQuery, questions, users, notifications, polls,
                 pollOptions, communities, qv, sw, sp, nf, bt, sb, answers, rs,
                 challenges, userChallenges, unlockedTitles, fc, mr, tags, tg,
                 sc, toggled, qlist, rk>>

\* the findOneAndUpdate of the option rejects
VoteUpdateOptionFails(c) ==
  /\ pv[c].pc = "update"
  /\ VoteReturns(c, pv[c], "Error when adding vote to poll option")
  /\ UNCHANGED <<now, strictQuery, questions, users, notifications, polls,
                 pollOptions, communities, qv, sw, sp, nf, bt, sb, calls,
                 answers, rs, challenges, userChallenges, unlockedTitles, fc,
                 mr, tags, tg, sc, toggled, qlist, rk>>

\* the findById after the update rejects: the vote stays in the store
VoteRefetchPollFails(c) ==
  /\ pv[c].pc = "refetch"
  /\ VoteReturns(c, pv[c], "Error when adding vote to poll option")
  /\ UNCHANGED <<now, strictQuery, questions, users, notifications, polls,
                 pollOptions, communities, qv, sw, sp, nf, bt, sb, calls,
                 answers, rs, challenges, userChallenges, unlockedTitles, fc,
                 mr, tags, tg, sc, toggled, qlist, rk>>

PollVoteFails ==
  \/ \E c \in VoteCallers, pollId \in PollIdArgs, optionId \in OptionIdArgs,
        username \in Voters :
       VoteFindPollFails(c, pollId, optionId, username)
  \/ \E c \in VoteCallers : VoteUpdateOptionFails(c) \/ VoteRefetchPollFails(c)

sweepRejected_rethrows(call, message) == [call EXCEPT !.pc = "raised"]

\* closeExpiredPolls: catch (error) { return { error: error.message } }
sweepRejected(call, message) == [call EXCEPT !.pc = "done", !.error = message]

\* the find of the polls to close rejects
SweepFindFails(s) ==
  /\ sw[s].pc = "find"
  /\ sw' = [sw EXCEPT ![s] = sweepRejected(@, StoreError)]
  /\ UNCHANGED <<now, strictQuery, questions, users, notifications, polls,
                 pollOptions, communities, qv, pv, sp, nf, bt, sb, calls,
                 answers, rs, challenges, userChallenges, unlockedTitles, fc,
                 mr, tags, tg, sc, toggled, qlist, rk>>

\* the findOneAndUpdate of poll p rejects: Promise.all rejects, and the call
\* returns the error unless it has returned one already
SweepUpdateFails(s, p) ==
  /\ SweepUpdatesUnderWay(s)
  /\ p \in sw[s].pollsToClose \ DOMAIN sw[s].closedPolls
  /\ LET call == [sw[s] EXCEPT
                    !.closedPolls = [q \in DOMAIN @ \cup {p} |->
                                       IF q = p THEN "rejected" ELSE @[q]]]
     IN sw' = [sw EXCEPT ![s] = IF sw[s].pc = "update"
                                  THEN sweepRejected(call, StoreError)
                                  ELSE call]
  /\ UNCHANGED <<now, strictQuery, questions, users, notifications, polls,
                 pollOptions, communities, qv, pv, sp, nf, bt, sb, calls,
                 answers, rs, challenges, userChallenges, unlockedTitles, fc,
                 mr, tags, tg, sc, toggled, qlist, rk>>

SweepFails ==
  \/ \E s \in Sweepers : SweepFindFails(s)
  \/ \E s \in Sweepers, p \in DOMAIN polls : SweepUpdateFails(s, p)

\* notifyUsers: a store read of usersToNotify rejects; usersToNotify returns
\* { error } and the call throws
NotifyResolveFails(c, oid, type) ==
  /\ nf[c].pc \in {"idle", "done"}
  /\ calls.notify < MaxNotifyCalls
  /\ calls' = [calls EXCEPT !.notify = @ + 1]
  /\ resolutionFailed(ResolveError)
  /\ nf' = [nf EXCEPT ![c] =
              notifyReturn([pc |-> "create", oid |-> oid, type |-> type,
                            usernames |-> <<>>, created |-> <<>>, att |-> <<>>,
                            ret |-> <<>>, error |-> Undefined],
                           "Error when adding notifications to users")]
  /\ UNCHANGED <<now, strictQuery, questions, users, notifications, polls,
                 pollOptions, communities, qv, pv, sw, sp, bt, sb, answers, rs,
                 challenges, userChallenges, unlockedTitles, fc, mr, tags, tg,
                 sc, toggled, qlist, rk>>

\* updateUserNotifsAsRead: the findOne of findUser, or a read that populates
\* the inbox, rejects; findUser returns null and the call throws
MarkFindUserFails(username) ==
  /\ mr.pc \in {"idle", "done"}
  /\ mr.pc = "done" => \A i \in DOMAIN mr.st : mr.st[i] # "pending"
  /\ calls.mark < MaxMarkCalls
  /\ calls' = [calls EXCEPT !.mark = @ + 1]
  /\ mr' = [pc |-> "done", username |-> username, read |-> <<>>,
            st |-> <<>>, ret |-> <<>>,
            error |-> "Error while finding the user"]
  /\ UNCHANGED <<now, strictQuery, questions, users, notifications, polls,
                 pollOptions, communities, qv, pv, sw, sp, nf, bt, sb, answers,
                 rs, challenges, userChallenges, unlockedTitles, fc, tags, tg,
                 sc, toggled, qlist, rk>>

\* fetchAndIncrementChallengesByUserAndType: UserModel.findOne rejects
FetchFindUserFails(c, username, challengeType) ==
  /\ FirstFreeFetch(c)
  /\ calls.challenge < MaxChallengeCalls
  /\ calls' = [calls EXCEPT !.challenge = @ + 1]
  /\ fc' = [fc EXCEPT ![c] =
              fetchReturn([pc |-> "fetch", username |-> username,
                           challengeType |-> challengeType, currentTime |-> 0,
                           known |-> {}, read |-> << >>, toWrite |-> << >>,
                           toStart |-> {}, toReward |-> {}, toUpdate |-> {},
                           at |-> "", error |-> Undefined],
                          StoreError)]
  /\ UNCHANGED <<now, strictQuery, questions, users, notifications, polls,
                 pollOptions, communities, qv, pv, sw, sp, nf, bt, sb, answers,
                 rs, challenges, userChallenges, unlockedTitles, mr, tags, tg,
                 sc, toggled, qlist, rk>>

\* the find of fetchUserChallengesByUsername rejects: it returns { error }
\* with the message, and the call throws it again
FetchUserChallengesFails(c) ==
  /\ fc[c].pc = "fetch"
  /\ fc' = [fc EXCEPT ![c] = fetchReturn(@, StoreError)]
  /\ UNCHANGED <<now, strictQuery, questions, users, notifications, polls,
                 pollOptions, communities, qv, pv, sw, sp, nf, bt, sb, calls,
                 answers, rs, challenges, userChallenges, unlockedTitles, mr,
                 tags, tg, sc, toggled, qlist, rk>>

\* ChallengeModel.find rejects
FetchChallengesFails(c) ==
  /\ fc[c].pc = "challenges"
  /\ fc' = [fc EXCEPT ![c] = fetchReturn(@, StoreError)]
  /\ UNCHANGED <<now, strictQuery, questions, users, notifications, polls,
                 pollOptions, communities, qv, pv, sw, sp, nf, bt, sb, calls,
                 answers, rs, challenges, userChallenges, unlockedTitles, mr,
                 tags, tg, sc, toggled, qlist, rk>>

\* the $addToSet of one reward rejects: distributeRewardsIfChallengeComplete
\* rejects and the call returns the error
FetchRewardFails(c, k) ==
  /\ fc[c].pc = "reward"
  /\ k \in fc[c].toReward
  /\ fc' = [fc EXCEPT ![c] = fetchReturn(@, StoreError)]
  /\ UNCHANGED <<now, strictQuery, questions, users, notifications, polls,
                 pollOptions, communities, qv, pv, sw, sp, nf, bt, sb, calls,
                 answers, rs, challenges, userChallenges, unlockedTitles, mr,
                 tags, tg, sc, toggled, qlist, rk>>

FetchReadFails ==
  \/ \E c \in ChallengeCallers, username \in ChallengeUsernameArgs,
        challengeType \in ChallengeTypes :
       FetchFindUserFails(c, username, challengeType)
  \/ \E c \in ChallengeCallers :
       FetchUserChallengesFails(c) \/ FetchChallengesFails(c)
  \/ \E c \in ChallengeCallers, k \in DOMAIN userChallenges :
       FetchRewardFails(c, k)

(***************************************************************************)
(* Every entry point with store operations that may fail.  A run exercises *)
(* one entry point, by calls that may overlap, on a store left behind by   *)
(* earlier calls.                                                          *)
(***************************************************************************)
\* one poll saved earlier, in either build
InitOnePoll ==
  \E strict \in BOOLEAN, voted \in VotedLists : InitPollStore(strict, <<voted>>)

\* the untimed challenge ch3 (two actions) with no record of alice yet: the
\* first call creates the record, the second completes it
InitOneChallenge ==
  InitChallengeStore([challenges |-> {"ch3"}, userChallenges |-> <<>>,
                      titles |-> <<>>])

InitEngine == InitFanout \/ InitMarkRead \/ InitOneChallenge \/ InitOnePoll

EntryPoints == {"notify", "mark", "vote", "sweep", "challenge"}

\* no call of the entry point has been made
NotCalled(entry) ==
  IF entry = "sweep"
    THEN \A s \in DOMAIN sw : sw[s].pc = "idle"
    ELSE calls[entry] = 0

\* the run exercises no other entry point
Only(entry) == \A other \in EntryPoints \ {entry} : NotCalled(other)

NextEngineFaults ==
  \/ Only("notify") /\ (NotifyAny \/ NotifyFails)
  \/ Only("notify") /\ \E c \in NotifyCallers, oid \in OidArgs,
                          type \in AllNotificationTypes :
                         NotifyResolveFails(c, oid, type)
  \/ Only("mark") /\ (MarkRead \/ MarkReadFails)
  \/ Only("mark") /\ \E username \in MarkUsernameArgs : MarkFindUserFails(username)
  \/ Only("vote") /\ (PollVote \/ PollVoteFails)
  \/ Only("sweep") /\ (Sweep \/ SweepFails)
  \/ Only("challenge") /\ (FetchAndIncrement \/ FetchFails \/ FetchReadFails)
  \/ Tick

SpecEngineFaults == InitEngine /\ [][NextEngineFaults]_vars

\* the steps that a call in flight can take next, a rejected store operation
\* among them
NotifyStep(c) ==
  \/ NotifyCreate(c) \/ NotifyCreateFails(c) \/ NotifyReturn(c)
  \/ \E i \in 1..MaxNotifs :
       NotifyAttachFind(c, i) \/ NotifyAttachPush(c, i) \/ NotifyAttachFails(c, i)

MarkStep ==
  \/ MarkReturn
  \/ \E i \in 1..MaxNotifs : MarkUpdate(i) \/ MarkUpdateFails(i)

VoteStep(c) ==
  \/ VoteUpdateOption(c) \/ VoteUpdateOptionFails(c)
  \/ VoteRefetchPoll(c) \/ VoteRefetchPollFails(c)

SweepStep(s) ==
  \/ SweepFind(s) \/ SweepFindFails(s) \/ SweepReturn(s)
  \/ \E p \in DOMAIN polls : SweepUpdate(s, p) \/ SweepUpdateFails(s, p)

FetchStep(c) ==
  \/ FetchUserChallenges(c) \/ FetchUserChallengesFails(c)
  \/ FetchChallenges(c) \/ FetchChallengesFails(c) \/ FetchReturn(c)
  \/ \E ch \in DOMAIN challenges :
       FetchCreateUserChallenge(c, ch) \/ FetchCreateFails(c, ch)
  \/ \E k \in DOMAIN userChallenges :
       FetchReward(c, k) \/ FetchRewardFails(c, k)
         \/ FetchUpdate(c, k) \/ FetchUpdateFails(c, k)

\* the messages of the { error } values of addVoteToPollOption
VoteErrors ==
  {"Poll not found", "Unable to vote in closed poll",
   "User has already voted in this poll", "Poll option not found",
   "Error retrieving updated poll", "Error when adding vote to poll option"}

\* a notifyUsers call is in flight and can take a step, or has returned the
\* usernames when every record was created and every attachment went through,
\* or has returned the error and no usernames
NotifyOutcome(c) ==
  CASE nf[c].pc = "idle" -> TRUE
    [] nf[c].pc \in {"create", "attach"} -> ENABLED NotifyStep(c)
    [] nf[c].pc = "done" ->
         IF nf[c].error = Undefined
           THEN /\ nf[c].ret = nf[c].usernames
                /\ nf[c].ret # <<>>
                /\ ~includes(nf[c].created, 0)
                /\ \A i \in DOMAIN nf[c].att : nf[c].att[i] \in {"pushed", "skipped"}
           ELSE /\ nf[c].error = "Error when adding notifications to users"
                /\ nf[c].ret = <<>>
    [] OTHER -> FALSE

MarkOutcome ==
  CASE mr.pc = "idle" -> TRUE
    [] mr.pc = "update" -> ENABLED MarkStep
    [] mr.pc = "done" ->
         IF mr.error = Undefined
           THEN /\ mr.ret = mr.read
                /\ \A i \in DOMAIN mr.st : mr.st[i] = "updated"
           ELSE /\ mr.error \in {"Error while finding the user",
                                 "Error while updating notification"}
                /\ mr.ret = <<>>
    [] OTHER -> FALSE

VoteOutcome(c) ==
  CASE pv[c].pc = "idle" -> TRUE
    [] pv[c].pc \in {"update", "refetch"} -> ENABLED VoteStep(c)
    [] pv[c].pc = "done" ->
         IF pv[c].error = Undefined
           THEN /\ pv[c].pollId \in DOMAIN polls
                /\ pv[c].optionId \in DOMAIN pollOptions
                /\ includes(pollOptions[pv[c].optionId].usersVoted, pv[c].username)
           ELSE pv[c].error \in VoteErrors
    [] OTHER -> FALSE

SweepOutcome(s) ==
  CASE sw[s].pc = "idle" -> TRUE
    [] sw[s].pc \in {"find", "update"} -> ENABLED SweepStep(s)
    [] sw[s].pc = "done" ->
         IF sw[s].error = Undefined
           THEN /\ DOMAIN sw[s].closedPolls = sw[s].pollsToClose
                /\ \A p \in DOMAIN sw[s].closedPolls :
                     sw[s].closedPolls[p] # "rejected"
           ELSE sw[s].error = StoreError
    [] OTHER -> FALSE

FetchOutcome(c) ==
  CASE fc[c].pc = "idle" -> TRUE
    [] fc[c].pc \in {"fetch", "challenges", "create", "reward"} ->
         ENABLED FetchStep(c)
    [] fc[c].pc = "done" ->
         IF fc[c].error = Undefined
           THEN /\ fc[c].at = "reward"
                /\ fc[c].toStart = {}
                /\ fc[c].toReward = {}
                /\ fc[c].toUpdate = {}
           ELSE fc[c].error \in {"User not found", StoreError,
                                 "Error while saving UserChallenge",
                                 "Error while updating UserChallenges"}
    [] OTHER -> FALSE

\* C34: every call of an entry point, whatever its store operations did, is
\* either still able to take a step or has returned: the success payload of
\* a call whose operations all went through, or an error value and no payload;
\* it is never in any other state (none raises to its caller).
C34_ReturnsPayloadOrError ==
  /\ \A c \in NotifyCallers : NotifyOutcome(c)
  /\ MarkOutcome
  /\ \A c \in VoteCallers : VoteOutcome(c)
  /\ \A s \in Sweepers : SweepOutcome(s)
  /\ \A c \in ChallengeCallers : FetchOutcome(c)

\* A sweep found a due poll, the store rejected the update of that poll, and
\* the call has returned the error.
C34_Witness ==
  \E s \in Sweepers :
    /\ sw[s].pc = "done"
    /\ sw[s].error = StoreError
    /\ sw[s].pollsToClose # {}
    /\ \A p \in sw[s].pollsToClose :
         p \in DOMAIN sw[s].closedPolls /\ sw[s].closedPolls[p] = "rejected"

====
